---- MODULE Spec2Model ----
(***************************************************************************)
(* Resilient data-access layer of the movie catalogue:                     *)
(*   - apiOptimized.js : CircuitBreaker, RequestDeduplicator,              *)
(*     PrefetchManager, retryWithBackoff and the public fetch operations   *)
(*   - cacheUtils (APICache) : the count-bounded cache behind apiCache     *)
(*   - advancedCacheUtils.js : AdvancedCacheManager, the byte-bounded      *)
(*     LRU cache                                                           *)
(* JavaScript is run-to-completion: an action is one synchronous turn (a   *)
(* call up to its first suspension, or the continuation of one settled     *)
(* promise together with the reactions it schedules).                      *)
(***************************************************************************)
EXTENDS Integers, Sequences, FiniteSets, TLC

\* ------------------------------------------------------------------------
\* Bounds of the model
\* ------------------------------------------------------------------------
\* horizon of the clock (Date.now() in clock ticks)
MaxTime == 1
\* number of operation (requestFn invocation) slots
MaxOps == 2
\* the maxRetries the operations of the catalog client run retryWithBackoff with
ApiRetries == 1
\* number of abandoned fetches (their attempt lost the race) still in flight
MaxAbandoned == 1
\* cap on CircuitBreaker.failureCount
MaxFailures == 6
\* horizon of the clock in the specification of the breaker alone
BreakerMaxTime == 3
\* cap on the fetches in flight in the specification of the breaker alone
MaxInflight == 2
\* CircuitBreaker timeout (cooldown) in clock ticks
CooldownTicks == 1
\* APICache maxAge in clock ticks
ApiMaxAgeTicks == 0

\* the maxSize of the APICache in the specification of the APICache alone
LiteMaxSize == 2
\* cap on the number of set calls, the values set and the horizon of the clock there
LiteMaxSets == 4
LiteMaxValue == 2
LiteMaxTime == 1

\* the values fetchFn of the hook can resolve with
MaxEdgeData == 2
\* fetchData calls of the hook that can await fetchFn at once
EdgeMaxCalls == 2
\* the maxAge the hook constructs its EdgeCache with, in clock ticks
EdgeMaxAge == 1
\* horizon of the clock in the specification of the hook
EdgeMaxTime == 3
\* the movie ids and the length of a trending result
MaxMovieId == 3
MaxResults == 2
\* horizon of the clock in the specification of the trending component
TrendingMaxTime == 1
\* STALE_TIME in clock ticks
TrendingStaleTicks == 0
\* requests of the trending component in flight at once, the aborted ones included
MaxCancelled == 1

\* horizon of the clock in the specification of AdvancedCacheManager
CacheMaxTime == 1
\* the maxSize AdvancedCacheManager is constructed with (estimated bytes)
AdvMaxSize == 8
\* the largest ttl passed to AdvancedCacheManager.set, in clock ticks
MaxTtl == 1
\* caps on stats.hits, stats.misses and stats.evictions
MaxHits == 2
MaxMisses == 1
MaxEvictions == 2
\* cap on the accessCount of an entry
MaxAccess == 2

\* number of backoff delays one retryWithBackoff call waits (its maxRetries)
\* in the specification of the delays alone
MaxWaits == 7
\* Math.random() takes the values 0/JitterSteps .. (JitterSteps - 1)/JitterSteps
JitterSteps == 4

\* ------------------------------------------------------------------------
\* API_CONFIG
\* ------------------------------------------------------------------------
MAX_RETRIES == 3
INITIAL_BACKOFF == 300
MAX_BACKOFF == 10000
CIRCUIT_BREAKER_THRESHOLD == 5
API_CACHE_MAX_SIZE == 50

Callers == {"c1", "c2"}
\* dedup keys of the logical resources (popular_<page>, details_<id>)
Keys == {"popular_1", "details_1", "search_a_1"}
OpIds == 1..MaxOps

Min(a, b) == IF a < b THEN a ELSE b

\* ------------------------------------------------------------------------
\* Values and errors
\* ------------------------------------------------------------------------
NoValue == << >>
\* FALLBACK_MOVIES / FALLBACK_DETAILS[movieId]
FallbackValue == <<0 - 1>>
\* FALLBACK_MOVIES filtered by the query
FilteredFallback == <<0 - 2>>
\* { results: [], totalPages: 0, currentPage: 1 } as <<results, totalPages, currentPage>>;
\* the variant has one page
EmptySearchResult_onePage == << << >>, 1, 1 >>
EmptySearchResult == << << >>, 0, 1 >>
\* the payload the catalog service returns at time t
ResponseValue(t) == <<t>>

NoError == [name |-> "", message |-> << >>]
\* DOMException thrown by fetch when its signal is aborted
AbortError == [name |-> "AbortError", message |-> <<"The", "operation", "was", "aborted">>]
\* TypeError thrown by fetch on a transport failure
FailedToFetch == [name |-> "TypeError", message |-> <<"Failed", "to", "fetch">>]
TimeoutError == [name |-> "Error", message |-> <<"Request", "timeout">>]
RequestAborted == [name |-> "Error", message |-> <<"Request", "aborted">>]
CircuitOpenError ==
    [name |-> "Error",
     message |-> <<"Circuit", "breaker", "is", "OPEN.", "Service", "temporarily", "unavailable.">>]
HttpError(status) == [name |-> "Error", message |-> <<"TMDB", "fetch", "failed:", status>>]
\* SyntaxError thrown by response.json() on a malformed payload
DecodeError == [name |-> "SyntaxError", message |-> <<"Unexpected", "token">>]
MovieNotFound == [name |-> "Error", message |-> <<"Movie", "not", "found">>]
HttpStatuses == {"404", "500"}

\* String.prototype.includes, on messages split into words
includes(message, sub) ==
    \E i \in 0..(Len(message) - Len(sub)) :
        \A j \in 1..Len(sub) : message[i + j] = sub[j]

NoOutcome == [ok |-> FALSE, value |-> NoValue, error |-> NoError]
Success(v) == [ok |-> TRUE, value |-> v, error |-> NoError]
Failure(e) == [ok |-> FALSE, value |-> NoValue, error |-> e]

\* ------------------------------------------------------------------------
\* State
\* ------------------------------------------------------------------------
VARIABLES
    now,              \* Date.now()
    apiKey,           \* import.meta.env.VITE_TMDB_API_KEY is set
    resource,         \* the logical resource the callers of this run ask for
    maxRetries,       \* the maxRetries argument of retryWithBackoff
    circuitBreaker,   \* the CircuitBreaker singleton
    pendingRequests,  \* RequestDeduplicator.pendingRequests: key -> operation (0: none)
    ops,              \* the invocations of an operation factory (retryWithBackoff runs)
    abandoned,        \* per operation, the fetches of attempts that lost the race against
                      \* the timeout and whose response has not arrived
    callers,          \* the call sites awaiting a public fetch operation
    apiCache,         \* APICache.cache, in insertion order
    prefetchQueue,    \* PrefetchManager.prefetchQueue
    prefetchedData,   \* PrefetchManager.prefetchedData
    delivery,         \* the promise settled by the last step and the callers it resumed
    inflight,         \* breaker alone: fetches in flight whose fn will report to the breaker
    lastEvent,        \* history: the last method called on the breaker
    openedAt,         \* history: when the breaker last moved to OPEN (-1: never)
    probes,           \* history: canAttempt() calls admitted since the breaker became HALF_OPEN
    consec,           \* history: recordFailure() calls since the last recordSuccess()
    advCache,         \* AdvancedCacheManager.cache, in insertion order
    currentSize,      \* AdvancedCacheManager.currentSize
    stats,            \* AdvancedCacheManager.stats
    hung,             \* AdvancedCacheManager.set is in a loop that never ends
    sawOversize,      \* history: some set was given a value larger than maxSize
    lastCall,         \* the last call on the AdvancedCacheManager and what it returned
    backoff,          \* delays alone: the variable delay of retryWithBackoff, the delay
                      \* before it and the number of delays waited
    edge,             \* one useEdgeCachedData hook: its EdgeCache entry for the key, its
                      \* React state and its fetchData calls awaiting fetchFn
    trending,         \* one TrendingMovies component: its TrendingCache and React state
    retry,            \* timers alone: one retryWithBackoff call and the timers it created
    lite              \* APICache alone: an APICache of a small maxSize, with history

config == <<apiKey, resource, maxRetries>>

\* the state of the parts that are modelled alone
aloneVars == <<edge, trending, retry, lite>>

\* the values fetchFn can resolve with; 0 stands for null
EdgeData == 1..MaxEdgeData

EdgeCalls == 1..EdgeMaxCalls

\* this.cache has no entry for the key
NoEntry == [present |-> FALSE, data |-> 0, timestamp |-> 0, isStale |-> FALSE]

\* cacheRef.current.get(key) returned null
NoCached == [present |-> FALSE, data |-> 0, isStale |-> FALSE]

\* a fetchData call that is not awaiting fetchFn. History of a call that
\* awaits: superseded, another call has begun to await after it; overtakenBy,
\* the data a call that began after it has resolved with (0: none)
IdleCall == [state |-> "idle", cached |-> NoCached, superseded |-> FALSE, overtakenBy |-> 0]

NoEdgeEvent == [op |-> "none", call |-> 0, force |-> FALSE, cached |-> NoCached, value |-> 0]

\* a snapshot held by TrendingCache; present is false for null
NoSnapshot == [present |-> FALSE, results |-> << >>]

\* the component right after its first render; lastFetchTime is -1 for null
NoTrending ==
    [data |-> NoSnapshot, previousData |-> NoSnapshot, lastFetchTime |-> 0 - 1,
     trending |-> NoSnapshot, recentlyUpdated |-> FALSE, error |-> FALSE,
     loading |-> TRUE, pending |-> 0, cancelled |-> 0, newItems |-> << >>,
     last |-> "none"]

\* no call of retryWithBackoff yet
NoRetry ==
    [status |-> "idle", signal |-> FALSE, aborted |-> FALSE, attempt |-> 0,
     timeoutTimers |-> 0, backoffTimer |-> FALSE, outcome |-> NoOutcome]

LiteKeys == {"k1", "k2", "k3"}

\* new APICache(LiteMaxSize, ApiMaxAgeTicks); born: history, the number of the
\* set that inserted the key (0: the key is absent)
NoLite ==
    [cache |-> << >>, born |-> [k \in LiteKeys |-> 0], sets |-> 0,
     last |-> [op |-> "none", key |-> "", evicted |-> ""]]

\* the hook right after its first render, before its effect has run
InitUi ==
    /\ edge = [entry |-> NoEntry, swr |-> TRUE, data |-> 0, loading |-> FALSE,
               error |-> NoError, isStale |-> FALSE,
               calls |-> [i \in EdgeCalls |-> IdleCall], last |-> NoEdgeEvent]
    /\ trending = NoTrending
    /\ retry = NoRetry
    /\ lite = NoLite


breakerVars == <<inflight, lastEvent, openedAt, probes, consec>>

advVars == <<advCache, currentSize, stats, hung, sawOversize, lastCall>>

apiVars == <<pendingRequests, ops, abandoned, callers, apiCache, prefetchQueue, prefetchedData,
             delivery>>

MovieIds == {1}
\* `details_${movieId}`
DetailsKey(id) == IF id = 1 THEN "details_1" ELSE ""
MovieIdOf(k) == IF k = "details_1" THEN 1 ELSE 0

\* generateCacheKey(endpoint, params)
generateCacheKey(k) ==
    IF k = "popular_1" THEN "popular:page=1"
    ELSE IF k = "details_1" THEN "details:movieId=1"
    ELSE IF k = "search_a_1" THEN "search:fields=&page=1&q=a"
    ELSE ""

\* owner: the caller whose signal the operation uses; aborted: that signal
FreeOp == [status |-> "free", key |-> "", owner |-> "", attempt |-> 0,
           prefetch |-> FALSE, aborted |-> FALSE]
\* sawPending: the operation that was pending for the key when the caller
\* called deduplicate (0: none); joinedAborted: history, the operation joined
\* had its signal aborted already; aborted: the signal of a caller that joined
IdleCaller == [pc |-> "idle", op |-> 0, sawPending |-> 0, aborted |-> FALSE, joinedAborted |-> FALSE]
NoDelivery == [op |-> 0, to |-> {}, outcome |-> NoOutcome]
NoEvent == [call |-> "", from |-> "", time |-> 0, ret |-> FALSE]

\* ------------------------------------------------------------------------
\* CircuitBreaker
\* ------------------------------------------------------------------------
\* constructor(threshold, timeout)
CircuitBreaker(threshold, timeout, t) ==
    [failureCount |-> 0, threshold |-> threshold, timeout |-> timeout,
     state |-> "CLOSED", nextAttempt |-> t]

\* recordSuccess that closes the breaker and keeps the count
recordSuccess_keepCount(cb) == [cb EXCEPT !.state = "CLOSED"]

recordSuccess(cb) == [cb EXCEPT !.failureCount = 0, !.state = "CLOSED"]

\* recordFailure that opens only when the count reaches the threshold
recordFailure_exact(cb, t) ==
    LET n == cb.failureCount + 1 IN
    IF n = cb.threshold
    THEN [cb EXCEPT !.failureCount = n, !.state = "OPEN", !.nextAttempt = t + cb.timeout]
    ELSE [cb EXCEPT !.failureCount = n]

\* recordFailure with the threshold test off by one
recordFailure_strict(cb, t) ==
    LET n == cb.failureCount + 1 IN
    IF n > cb.threshold
    THEN [cb EXCEPT !.failureCount = n, !.state = "OPEN", !.nextAttempt = t + cb.timeout]
    ELSE [cb EXCEPT !.failureCount = n]

recordFailure(cb, t) ==
    LET n == cb.failureCount + 1 IN
    IF n >= cb.threshold
    THEN [cb EXCEPT !.failureCount = n, !.state = "OPEN", !.nextAttempt = t + cb.timeout]
    ELSE [cb EXCEPT !.failureCount = n]

\* canAttempt with the cooldown test off by one
canAttempt_strict(cb, t) ==
    IF cb.state = "CLOSED" THEN [ret |-> TRUE, cb |-> cb]
    ELSE IF cb.state = "OPEN"
    THEN IF t > cb.nextAttempt
         THEN [ret |-> TRUE, cb |-> [cb EXCEPT !.state = "HALF_OPEN"]]
         ELSE [ret |-> FALSE, cb |-> cb]
    ELSE [ret |-> cb.state = "HALF_OPEN", cb |-> cb]

\* returns the answer and the breaker after the call
canAttempt(cb, t) ==
    IF cb.state = "CLOSED" THEN [ret |-> TRUE, cb |-> cb]
    ELSE IF cb.state = "OPEN"
    THEN IF t >= cb.nextAttempt
         THEN [ret |-> TRUE, cb |-> [cb EXCEPT !.state = "HALF_OPEN"]]
         ELSE [ret |-> FALSE, cb |-> cb]
    ELSE [ret |-> cb.state = "HALF_OPEN", cb |-> cb]

\* ------------------------------------------------------------------------
\* APICache (count-bounded, insertion order)
\* ------------------------------------------------------------------------
IndexOf(cache, key) ==
    IF \E i \in 1..Len(cache) : cache[i].key = key
    THEN CHOOSE i \in 1..Len(cache) : cache[i].key = key
    ELSE 0

RemoveAt(s, i) == SubSeq(s, 1, i - 1) \o SubSeq(s, i + 1, Len(s))

\* set that evicts only when the cache is above its bound
APICache_set_late(cache, maxSize, key, value, t) ==
    LET c1 == IF Len(cache) > maxSize THEN Tail(cache) ELSE cache
        i == IndexOf(c1, key)
        item == [key |-> key, value |-> value, timestamp |-> t]
    IN IF i = 0 THEN Append(c1, item) ELSE [c1 EXCEPT ![i] = item]

APICache_set(cache, maxSize, key, value, t) ==
    LET c1 == IF Len(cache) >= maxSize THEN Tail(cache) ELSE cache
        i == IndexOf(c1, key)
        item == [key |-> key, value |-> value, timestamp |-> t]
    IN IF i = 0 THEN Append(c1, item) ELSE [c1 EXCEPT ![i] = item]

\* returns the value (NoValue for null) and the cache after the call
APICache_get(cache, maxAge, key, t) ==
    LET i == IndexOf(cache, key) IN
    IF i = 0 THEN [value |-> NoValue, cache |-> cache]
    ELSE IF t - cache[i].timestamp > maxAge
    THEN [value |-> NoValue, cache |-> RemoveAt(cache, i)]
    ELSE [value |-> cache[i].value, cache |-> cache]

\* ------------------------------------------------------------------------
\* The state the helpers of apiOptimized.js work on
\* ------------------------------------------------------------------------
World ==
    [cb |-> circuitBreaker, pending |-> pendingRequests, ops |-> ops, abandoned |-> abandoned,
     callers |-> callers, cache |-> apiCache, pq |-> prefetchQueue, pd |-> prefetchedData,
     delivery |-> NoDelivery]

\* an operation slot is reused once it has settled and none of its fetches is left
Collect(w) ==
    [o \in OpIds |->
        IF w.ops[o].status = "settled" /\ w.abandoned[o] = 0 THEN FreeOp ELSE w.ops[o]]

Commit(w) ==
    /\ circuitBreaker' = w.cb
    /\ pendingRequests' = w.pending
    /\ ops' = Collect(w)
    /\ abandoned' = w.abandoned
    /\ callers' = w.callers
    /\ apiCache' = w.cache
    /\ prefetchQueue' = w.pq
    /\ prefetchedData' = w.pd
    /\ delivery' = w.delivery

\* a call that returns without suspending
ReturnNow(w, c, out) ==
    [w EXCEPT !.delivery = [op |-> 0, to |-> {c}, outcome |-> out]]

\* ------------------------------------------------------------------------
\* retryWithBackoff
\* ------------------------------------------------------------------------
\* every error taken for retryable
isRetryable_all(error) ==
    \/ error.name = "AbortError"
    \/ TRUE
isRetryable(error) ==
    \/ error.name = "AbortError"
    \/ includes(error.message, <<"Failed", "to", "fetch">>)
    \/ includes(error.message, <<"timeout">>)

Waiters(w, o) == {c \in Callers : w.callers[c].pc = "waiting" /\ w.callers[c].op = o}

\* the settling with the catch block of prefetch left out
Settle_surface(w, o, out) ==
    LET op == w.ops[o]
        w1 == [w EXCEPT !.ops[o].status = "settled"]
        w2 == IF op.prefetch
              THEN [w1 EXCEPT
                      !.pd = IF out.ok THEN [@ EXCEPT ![MovieIdOf(op.key)] = out.value] ELSE @,
                      !.pq = @ \ {MovieIdOf(op.key)}]
              ELSE [w1 EXCEPT !.pending[op.key] = 0]
        seen == out
    IN [w2 EXCEPT
          !.callers = [c \in Callers |-> IF c \in Waiters(w, o) THEN IdleCaller ELSE w.callers[c]],
          !.delivery = [op |-> o, to |-> Waiters(w, o), outcome |-> seen]]
\* the promise of operation o settles: the finally of deduplicate deletes the
\* key, the continuation of prefetch stores or swallows, the waiters resume
Settle(w, o, out) ==
    LET op == w.ops[o]
        w1 == [w EXCEPT !.ops[o].status = "settled"]
        w2 == IF op.prefetch
              THEN [w1 EXCEPT
                      !.pd = IF out.ok THEN [@ EXCEPT ![MovieIdOf(op.key)] = out.value] ELSE @,
                      !.pq = @ \ {MovieIdOf(op.key)}]
              ELSE [w1 EXCEPT !.pending[op.key] = 0]
        seen == IF op.prefetch /\ ~out.ok THEN Success(NoValue) ELSE out
    IN [w2 EXCEPT
          !.callers = [c \in Callers |-> IF c \in Waiters(w, o) THEN IdleCaller ELSE w.callers[c]],
          !.delivery = [op |-> o, to |-> Waiters(w, o), outcome |-> seen]]

\* Math.random() * 0.3 * delay for Math.random() = r / JitterSteps, in whole
\* milliseconds
jitter(r, delay) == (r * 3 * delay) \div (10 * JitterSteps)

\* the new delay without the cap
nextDelay_uncapped(delay, r) == delay * 2 + jitter(r, delay)
\* delay = Math.min(delay * 2 + jitter, API_CONFIG.MAX_BACKOFF)
nextDelay(delay, r) == Min(delay * 2 + jitter(r, delay), MAX_BACKOFF)

\* let delay = API_CONFIG.INITIAL_BACKOFF
NoBackoff == [delay |-> INITIAL_BACKOFF, previous |-> INITIAL_BACKOFF, waits |-> 0]

\* the catch block that gives up one attempt too late
OnAttemptError_late(w, o, error) ==
    IF w.ops[o].attempt = maxRetries + 1 \/ ~isRetryable(error)
    THEN Settle(w, o, Failure(error))
    ELSE [w EXCEPT !.ops[o].status = "backoff"]
\* the catch block of retryWithBackoff for the current attempt of o
OnAttemptError(w, o, error) ==
    IF w.ops[o].attempt = maxRetries \/ ~isRetryable(error)
    THEN Settle(w, o, Failure(error))
    ELSE [w EXCEPT !.ops[o].status = "backoff"]

\* one iteration of the loop up to the await: fn() runs to its fetch, then
\* createTimeoutPromise arms the timer and the abort listener. An operation
\* in status "attempt" has the fetch of its current attempt in flight
StartAttempt(w, o) ==
    LET ca == canAttempt(w.cb, now)
        w1 == [w EXCEPT !.cb = ca.cb]
    IN IF ~ca.ret THEN OnAttemptError(w1, o, CircuitOpenError)
       ELSE IF w.ops[o].aborted
       THEN OnAttemptError(w1, o, AbortError)
       ELSE [w1 EXCEPT !.ops[o].status = "attempt"]

\* ------------------------------------------------------------------------
\* Operation factories
\* ------------------------------------------------------------------------
\* the async factory passed by fetchPopularMovies
PopularFactory(w, o) ==
    IF ~apiKey THEN Settle(w, o, Success(FallbackValue)) ELSE StartAttempt(w, o)

fetchMovieDetailsInternal(w, o) ==
    LET g == APICache_get(w.cache, ApiMaxAgeTicks, generateCacheKey(w.ops[o].key), now)
        w1 == [w EXCEPT !.cache = g.cache]
    IN IF g.value # NoValue THEN Settle(w1, o, Success(g.value))
       ELSE IF ~apiKey THEN Settle(w1, o, Success(FallbackValue))
       ELSE StartAttempt(w1, o)

\* the async factory passed by searchMovies
SearchFactory(w, o) ==
    IF ~apiKey THEN Settle(w, o, Success(FilteredFallback)) ELSE StartAttempt(w, o)

Factory(w, o) ==
    IF w.ops[o].key = "details_1" THEN fetchMovieDetailsInternal(w, o)
    ELSE IF w.ops[o].key = "search_a_1" THEN SearchFactory(w, o)
    ELSE PopularFactory(w, o)

FreeOps(w) == {o \in OpIds : w.ops[o].status = "free"}
NewOp(w) == CHOOSE o \in FreeOps(w) : \A p \in FreeOps(w) : o <= p

\* ------------------------------------------------------------------------
\* RequestDeduplicator
\* ------------------------------------------------------------------------
\* deduplicate that never reuses the pending promise
deduplicate_nojoin(w, c, key) ==
    LET o == NewOp(w)
        w1 == [w EXCEPT
                 !.ops[o] = [FreeOp EXCEPT !.status = "attempt", !.key = key, !.owner = c],
                 !.pending[key] = o,
                 !.callers[c] = [@ EXCEPT !.pc = "waiting", !.op = o,
                                          !.sawPending = w.pending[key]]]
    IN Factory(w1, o)

deduplicate(w, c, key) ==
    IF w.pending[key] # 0
    THEN [w EXCEPT !.callers[c] =
            [@ EXCEPT !.pc = "waiting", !.op = w.pending[key], !.sawPending = w.pending[key],
                      !.joinedAborted = w.ops[w.pending[key]].aborted]]
    ELSE LET o == NewOp(w)
             w1 == [w EXCEPT
                      !.ops[o] = [FreeOp EXCEPT !.status = "attempt", !.key = key, !.owner = c],
                      !.pending[key] = o,
                      !.callers[c] = [@ EXCEPT !.pc = "waiting", !.op = o]]
         IN Factory(w1, o)

CanCall(c) ==
    /\ callers[c].pc = "idle"
    /\ FreeOps(World) # {}

\* ------------------------------------------------------------------------
\* PrefetchManager
\* ------------------------------------------------------------------------
prefetch(w, c, movieId) ==
    IF w.pd[movieId] # NoValue THEN ReturnNow(w, c, Success(w.pd[movieId]))
    ELSE IF movieId \in w.pq THEN ReturnNow(w, c, Success(NoValue))
    ELSE LET o == NewOp(w)
             w1 == [w EXCEPT
                      !.pq = @ \cup {movieId},
                      !.ops[o] = [FreeOp EXCEPT !.status = "attempt", !.key = DetailsKey(movieId),
                                                !.owner = c, !.prefetch = TRUE],
                      !.callers[c] = [@ EXCEPT !.pc = "waiting", !.op = o]]
         IN fetchMovieDetailsInternal(w1, o)

\* clearPrefetch that forgets the queue
clearPrefetch_dataOnly(w) == [w EXCEPT !.pd = [id \in MovieIds |-> NoValue]]
clearPrefetch(w) == [w EXCEPT !.pq = {}, !.pd = [id \in MovieIds |-> NoValue]]

\* ------------------------------------------------------------------------
\* AdvancedCacheManager (byte-bounded, least recently used)
\* ------------------------------------------------------------------------
AdvKeys == {"", "a", "b"}
\* the values stored: strings
AdvData == {"", "ab", "abcd"}
Ttls == {0, MaxTtl}

\* JSON.stringify of a string without characters to escape
JSON_stringify(data) == "\"" \o data \o "\""

estimateSize(data) == Len(JSON_stringify(data)) * 2

\* deleted: the call removed the entry of its key because it had expired
NoCall == [op |-> "", key |-> "", found |-> FALSE, data |-> "", overwrote |-> FALSE,
           evicted |-> 0, deleted |-> FALSE]

\* the index of the entry evictLRU picks: the first one, in iteration order,
\* whose lastAccess is the smallest (0: the cache is empty)
LruIndex(cache) ==
    IF Len(cache) = 0 THEN 0
    ELSE CHOOSE i \in 1..Len(cache) :
            /\ \A j \in 1..Len(cache) : cache[i].lastAccess <= cache[j].lastAccess
            /\ \A j \in 1..(i - 1) : cache[j].lastAccess > cache[i].lastAccess

\* evictLRU on (cache, currentSize, stats.evictions); `if (lruKey)` is false
\* for null and for the empty string
evictLRU(cache, cur, ev) ==
    LET i == LruIndex(cache) IN
    IF i # 0 /\ cache[i].key # ""
    THEN [cache |-> RemoveAt(cache, i), cur |-> cur - estimateSize(cache[i].data), ev |-> ev + 1]
    ELSE [cache |-> cache, cur |-> cur, ev |-> ev]

\* the loop condition with the size of the new value left out
MustEvict_nosize(cache, cur, size, maxSize) == cur > maxSize /\ Len(cache) > 0
\* the condition of the while loop of set
MustEvict(cache, cur, size, maxSize) == cur + size > maxSize /\ Len(cache) > 0

RECURSIVE EvictWhile(_, _, _, _, _)
\* the while loop of set; diverges: an iteration changed nothing, so the
\* loop condition stays true for ever
EvictWhile(cache, cur, ev, size, maxSize) ==
    IF MustEvict(cache, cur, size, maxSize)
    THEN LET r == evictLRU(cache, cur, ev) IN
         IF r.cache = cache
         THEN [cache |-> cache, cur |-> cur, ev |-> ev, diverges |-> TRUE]
         ELSE EvictWhile(r.cache, r.cur, r.ev, size, maxSize)
    ELSE [cache |-> cache, cur |-> cur, ev |-> ev, diverges |-> FALSE]

\* the store with the size of the overwritten entry left in currentSize
AdvStore_keepOld(cache, cur, key, data, ttl, t) ==
    LET i == IndexOf(cache, key)
        entry == [key |-> key, data |-> data, timestamp |-> t, ttl |-> ttl,
                  accessCount |-> 0, lastAccess |-> t]
    IN [cache |-> IF i = 0 THEN Append(cache, entry) ELSE [cache EXCEPT ![i] = entry],
        cur |-> cur + estimateSize(data)]
\* set once its loop has ended: the old size of the key goes, the entry is
\* stored (a Map keeps the position of a key it already holds)
AdvStore(cache, cur, key, data, ttl, t) ==
    LET i == IndexOf(cache, key)
        cur1 == IF i # 0 THEN cur - estimateSize(cache[i].data) ELSE cur
        entry == [key |-> key, data |-> data, timestamp |-> t, ttl |-> ttl,
                  accessCount |-> 0, lastAccess |-> t]
    IN [cache |-> IF i = 0 THEN Append(cache, entry) ELSE [cache EXCEPT ![i] = entry],
        cur |-> cur1 + estimateSize(data)]

InitAdv ==
    /\ backoff = NoBackoff
    /\ advCache = << >>
    /\ currentSize = 0
    /\ stats = [hits |-> 0, misses |-> 0, evictions |-> 0]
    /\ hung = FALSE
    /\ sawOversize = FALSE
    /\ lastCall = NoCall

set(key, data, ttl) ==
    \E size \in {estimateSize(data)} :
    \E r \in {EvictWhile(advCache, currentSize, stats.evictions, size, AdvMaxSize)} :
    \E st \in {AdvStore(r.cache, r.cur, key, data, ttl, now)} :
       /\ ~hung
       /\ r.ev <= MaxEvictions
       /\ stats' = [stats EXCEPT !.evictions = r.ev]
       /\ sawOversize' = (sawOversize \/ size > AdvMaxSize)
       /\ lastCall' = [NoCall EXCEPT !.op = "set", !.key = key,
                                     !.overwrote = (IndexOf(r.cache, key) # 0),
                                     !.evicted = r.ev - stats.evictions]
       /\ IF r.diverges
          THEN /\ hung' = TRUE
               /\ advCache' = r.cache
               /\ currentSize' = r.cur
          ELSE /\ hung' = FALSE
               /\ advCache' = st.cache
               /\ currentSize' = st.cur
       /\ UNCHANGED <<now, config, aloneVars, backoff, circuitBreaker, apiVars, breakerVars>>

\* get that takes an entry for expired as soon as its age reaches ttl
get_eager(key) ==
    LET i == IndexOf(advCache, key) IN
    /\ ~hung
    /\ IF i = 0
       THEN /\ stats.misses < MaxMisses
            /\ stats' = [stats EXCEPT !.misses = @ + 1]
            /\ lastCall' = [NoCall EXCEPT !.op = "get", !.key = key]
            /\ UNCHANGED <<advCache, currentSize>>
       ELSE IF now - advCache[i].timestamp >= advCache[i].ttl
       THEN /\ stats.misses < MaxMisses
            /\ advCache' = RemoveAt(advCache, i)
            /\ currentSize' = currentSize - estimateSize(advCache[i].data)
            /\ stats' = [stats EXCEPT !.misses = @ + 1]
            /\ lastCall' = [NoCall EXCEPT !.op = "get", !.key = key, !.deleted = TRUE]
       ELSE /\ stats.hits < MaxHits
            /\ advCache[i].accessCount < MaxAccess
            /\ advCache' = [advCache EXCEPT ![i].accessCount = @ + 1, ![i].lastAccess = now]
            /\ stats' = [stats EXCEPT !.hits = @ + 1]
            /\ lastCall' = [NoCall EXCEPT !.op = "get", !.key = key, !.found = TRUE,
                                          !.data = advCache[i].data]
            /\ UNCHANGED currentSize
    /\ UNCHANGED <<now, config, aloneVars, backoff, circuitBreaker, apiVars, breakerVars, hung, sawOversize>>
\* get that restarts the time to live of the entry it returns
get_touch(key) ==
    LET i == IndexOf(advCache, key) IN
    /\ ~hung
    /\ IF i = 0
       THEN /\ stats.misses < MaxMisses
            /\ stats' = [stats EXCEPT !.misses = @ + 1]
            /\ lastCall' = [NoCall EXCEPT !.op = "get", !.key = key]
            /\ UNCHANGED <<advCache, currentSize>>
       ELSE IF now - advCache[i].timestamp > advCache[i].ttl
       THEN /\ stats.misses < MaxMisses
            /\ advCache' = RemoveAt(advCache, i)
            /\ currentSize' = currentSize - estimateSize(advCache[i].data)
            /\ stats' = [stats EXCEPT !.misses = @ + 1]
            /\ lastCall' = [NoCall EXCEPT !.op = "get", !.key = key, !.deleted = TRUE]
       ELSE /\ stats.hits < MaxHits
            /\ advCache[i].accessCount < MaxAccess
            /\ advCache' = [advCache EXCEPT ![i].accessCount = @ + 1, ![i].lastAccess = now,
                                            ![i].timestamp = now]
            /\ stats' = [stats EXCEPT !.hits = @ + 1]
            /\ lastCall' = [NoCall EXCEPT !.op = "get", !.key = key, !.found = TRUE,
                                          !.data = advCache[i].data]
            /\ UNCHANGED currentSize
    /\ UNCHANGED <<now, config, aloneVars, backoff, circuitBreaker, apiVars, breakerVars, hung, sawOversize>>
get(key) ==
    LET i == IndexOf(advCache, key) IN
    /\ ~hung
    /\ IF i = 0
       THEN /\ stats.misses < MaxMisses
            /\ stats' = [stats EXCEPT !.misses = @ + 1]
            /\ lastCall' = [NoCall EXCEPT !.op = "get", !.key = key]
            /\ UNCHANGED <<advCache, currentSize>>
       ELSE IF now - advCache[i].timestamp > advCache[i].ttl
       THEN /\ stats.misses < MaxMisses
            /\ advCache' = RemoveAt(advCache, i)
            /\ currentSize' = currentSize - estimateSize(advCache[i].data)
            /\ stats' = [stats EXCEPT !.misses = @ + 1]
            /\ lastCall' = [NoCall EXCEPT !.op = "get", !.key = key, !.deleted = TRUE]
       ELSE /\ stats.hits < MaxHits
            /\ advCache[i].accessCount < MaxAccess
            /\ advCache' = [advCache EXCEPT ![i].accessCount = @ + 1, ![i].lastAccess = now]
            /\ stats' = [stats EXCEPT !.hits = @ + 1]
            /\ lastCall' = [NoCall EXCEPT !.op = "get", !.key = key, !.found = TRUE,
                                          !.data = advCache[i].data]
            /\ UNCHANGED currentSize
    /\ UNCHANGED <<now, config, aloneVars, backoff, circuitBreaker, apiVars, breakerVars, hung, sawOversize>>

isExpired(cache, key, t) ==
    LET i == IndexOf(cache, key) IN
    IF i = 0 THEN TRUE ELSE t - cache[i].timestamp > cache[i].ttl

has(key) ==
    /\ ~hung
    /\ lastCall' = [NoCall EXCEPT !.op = "has", !.key = key,
                                  !.found = (IndexOf(advCache, key) # 0
                                             /\ ~isExpired(advCache, key, now))]
    /\ UNCHANGED <<now, config, aloneVars, backoff, circuitBreaker, apiVars, breakerVars, advCache, currentSize,
                   stats, hung, sawOversize>>

\* evictLRU() called from outside
evict ==
    LET r == evictLRU(advCache, currentSize, stats.evictions) IN
    /\ ~hung
    /\ r.ev <= MaxEvictions
    /\ advCache' = r.cache
    /\ currentSize' = r.cur
    /\ stats' = [stats EXCEPT !.evictions = r.ev]
    /\ lastCall' = [NoCall EXCEPT !.op = "evictLRU", !.evicted = r.ev - stats.evictions]
    /\ UNCHANGED <<now, config, aloneVars, backoff, circuitBreaker, apiVars, breakerVars, hung, sawOversize>>

clear ==
    /\ ~hung
    /\ advCache' = << >>
    /\ currentSize' = 0
    /\ stats' = [hits |-> 0, misses |-> 0, evictions |-> 0]
    /\ lastCall' = [NoCall EXCEPT !.op = "clear"]
    /\ UNCHANGED <<now, config, aloneVars, backoff, circuitBreaker, apiVars, breakerVars, hung, sawOversize>>

CacheTick ==
    /\ now < CacheMaxTime
    /\ now' = now + 1
    /\ lastCall' = NoCall
    /\ UNCHANGED <<config, aloneVars, backoff, circuitBreaker, apiVars, breakerVars, advCache, currentSize, stats,
                   hung, sawOversize>>

NextCache ==
    \/ \E key \in AdvKeys, data \in AdvData, ttl \in Ttls : set(key, data, ttl)
    \/ \E key \in AdvKeys : get(key)
    \/ \E key \in AdvKeys : has(key)
    \/ evict
    \/ clear
    \/ CacheTick

\* ------------------------------------------------------------------------
\* Actions of the catalog client
\* ------------------------------------------------------------------------
InitApi ==
    /\ now = 0
    /\ apiKey \in BOOLEAN
    /\ resource \in Keys
    /\ maxRetries \in {ApiRetries, MAX_RETRIES}
    /\ circuitBreaker = CircuitBreaker(CIRCUIT_BREAKER_THRESHOLD, CooldownTicks, 0)
    /\ pendingRequests = [k \in Keys |-> 0]
    /\ ops = [o \in OpIds |-> FreeOp]
    /\ abandoned = [o \in OpIds |-> 0]
    /\ callers = [c \in Callers |-> IdleCaller]
    /\ apiCache = << >>
    /\ prefetchQueue = {}
    /\ prefetchedData = [id \in MovieIds |-> NoValue]
    /\ delivery = NoDelivery
    /\ inflight = 0
    /\ lastEvent = NoEvent
    /\ openedAt = 0 - 1
    /\ probes = 0
    /\ consec = 0

\* fetchPopularMovies({signal, page: 1}) called by c with a fresh signal
fetchPopularMovies(c) ==
    /\ CanCall(c)
    /\ resource = "popular_1"
    /\ LET g == APICache_get(apiCache, ApiMaxAgeTicks, generateCacheKey("popular_1"), now)
           w1 == [World EXCEPT !.cache = g.cache]
       IN IF g.value # NoValue
          THEN Commit(ReturnNow(w1, c, Success(g.value)))
          ELSE Commit(deduplicate(w1, c, "popular_1"))
    /\ UNCHANGED <<now, config, aloneVars, backoff, breakerVars, advVars>>

\* fetchMovieDetails(1, {signal}) called by c with a fresh signal
fetchMovieDetails(c) ==
    /\ CanCall(c)
    /\ resource = DetailsKey(1)
    /\ Commit(deduplicate(World, c, DetailsKey(1)))
    /\ UNCHANGED <<now, config, aloneVars, backoff, breakerVars, advVars>>

\* the queries: sequences of characters (null and undefined are the empty one)
Queries == {<< >>, <<" ">>, <<" ", " ">>, <<" ", "a", " ">>, <<"a">>}

\* String.prototype.trim
trim(s) ==
    LET RECURSIVE left(_), right(_)
        left(x) == IF x # << >> /\ Head(x) = " " THEN left(Tail(x)) ELSE x
        right(x) == IF x # << >> /\ x[Len(x)] = " " THEN right(SubSeq(x, 1, Len(x) - 1)) ELSE x
    IN right(left(s))

\* `search_${q}_${page}` for page 1
SearchKey(q) == IF q = <<"a">> THEN "search_a_1" ELSE ""

\* searchMovies(query, {signal}) called by c with a fresh signal
searchMovies(c, query) ==
    /\ CanCall(c)
    /\ resource = "search_a_1"
    /\ LET q == trim(query) IN
       IF q = << >>
       THEN Commit(ReturnNow(World, c, Success(EmptySearchResult)))
       ELSE /\ resource = SearchKey(q)
            /\ LET g == APICache_get(apiCache, ApiMaxAgeTicks, generateCacheKey(SearchKey(q)), now)
                   w1 == [World EXCEPT !.cache = g.cache]
               IN IF g.value # NoValue
                  THEN Commit(ReturnNow(w1, c, Success(g.value)))
                  ELSE Commit(deduplicate(w1, c, SearchKey(q)))
    /\ UNCHANGED <<now, config, aloneVars, backoff, breakerVars, advVars>>

\* prefetchMovieDetails(1, signal) called by c with a fresh signal
prefetchMovieDetails(c) ==
    /\ CanCall(c)
    /\ resource = DetailsKey(1)
    /\ Commit(prefetch(World, c, 1))
    /\ UNCHANGED <<now, config, aloneVars, backoff, breakerVars, advVars>>

\* the fetches in flight for operation o
LiveFetches(o) == (IF ops[o].status = "attempt" THEN 1 ELSE 0) + abandoned[o]

\* what the rest of fn does when the response of a fetch of operation o has
\* arrived (res: "ok", an HTTP error status, "neterr" for a rejected fetch,
\* "decode" for a rejected response.json()); current: the fetch is the one
\* the race of retryWithBackoff is waiting for
AfterFetch(w0, o, res, current) ==
    IF res = "ok"
    THEN LET v == ResponseValue(now)
             w1 == [w0 EXCEPT
                      !.cb = recordSuccess(@),
                      !.cache = APICache_set(@, API_CACHE_MAX_SIZE,
                                             generateCacheKey(ops[o].key), v, now)]
         IN IF current THEN Settle(w1, o, Success(v)) ELSE w1
    ELSE IF res \in HttpStatuses
    THEN LET w1 == [w0 EXCEPT !.cb = recordFailure(@, now)]
         IN IF current THEN OnAttemptError(w1, o, HttpError(res)) ELSE w1
    ELSE IF res = "neterr"
    THEN IF current THEN OnAttemptError(w0, o, FailedToFetch) ELSE w0
    ELSE IF current THEN OnAttemptError(w0, o, DecodeError) ELSE w0

Outcomes == {"ok", "neterr", "decode"} \cup HttpStatuses

\* the response of the fetch of the current attempt of o arrives
Response(o, res) ==
    /\ ops[o].status = "attempt"
    /\ res \in HttpStatuses => circuitBreaker.failureCount < MaxFailures
    /\ Commit(AfterFetch(World, o, res, TRUE))
    /\ UNCHANGED <<now, config, aloneVars, backoff, breakerVars, advVars>>

\* the response of an abandoned fetch of o arrives
LateResponse(o, res) ==
    /\ abandoned[o] > 0
    /\ res \in HttpStatuses => circuitBreaker.failureCount < MaxFailures
    /\ Commit(AfterFetch([World EXCEPT !.abandoned[o] = @ - 1], o, res, FALSE))
    /\ UNCHANGED <<now, config, aloneVars, backoff, breakerVars, advVars>>

SumAbandoned(ab) ==
    LET RECURSIVE sum(_)
        sum(S) == IF S = {} THEN 0 ELSE LET o == CHOOSE x \in S : TRUE IN ab[o] + sum(S \ {o})
    IN sum(OpIds)

\* the timer of createTimeoutPromise fires while the attempt is pending: the
\* race is lost, the fetch stays in flight
Timeout(o) ==
    /\ ops[o].status = "attempt"
    /\ SumAbandoned(abandoned) < MaxAbandoned
    /\ Commit(OnAttemptError([World EXCEPT !.abandoned[o] = @ + 1], o, TimeoutError))
    /\ UNCHANGED <<now, config, aloneVars, backoff, breakerVars, advVars>>

\* the backoff delay has elapsed: the loop goes to its next iteration
BackoffDone(o) ==
    /\ ops[o].status = "backoff"
    /\ Commit(StartAttempt([World EXCEPT !.ops[o].attempt = @ + 1], o))
    /\ UNCHANGED <<now, config, aloneVars, backoff, breakerVars, advVars>>

\* an abort that cancels the operation whoever of its callers aborts
Abort_any(c) ==
    LET o == callers[c].op
        w0 == [World EXCEPT !.callers[c].aborted = TRUE]
        w1 == [w0 EXCEPT !.ops[o].aborted = TRUE, !.abandoned[o] = 0]
    IN /\ callers[c].pc = "waiting"
       /\ ~ops[o].aborted
       /\ ~callers[c].aborted
       /\ IF ops[o].status = "attempt"
          THEN \E e \in {AbortError, RequestAborted} : Commit(OnAttemptError(w1, o, e))
          ELSE Commit(w1)
       /\ UNCHANGED <<now, config, aloneVars, backoff, breakerVars, advVars>>

\* a waiting caller aborts the signal it passed. If its call started the
\* operation, the fetches of the operation reject with an AbortError and the
\* abort listener rejects the timeout promise; either settles the race
Abort(c) ==
    LET o == callers[c].op
        w1 == [World EXCEPT !.ops[o].aborted = TRUE, !.abandoned[o] = 0]
    IN /\ callers[c].pc = "waiting"
       /\ IF ops[o].owner # c
          THEN /\ ~callers[c].aborted
               /\ Commit([World EXCEPT !.callers[c].aborted = TRUE])
          ELSE /\ ~ops[o].aborted
               /\ IF ops[o].status = "attempt"
                  THEN \E e \in {AbortError, RequestAborted} : Commit(OnAttemptError(w1, o, e))
                  ELSE Commit(w1)
       /\ UNCHANGED <<now, config, aloneVars, backoff, breakerVars, advVars>>

\* the signal of an operation that has settled is aborted (unmount, or the
\* next fetch of the component): its abandoned fetches are cancelled
AbortSettled(o) ==
    /\ ops[o].status = "settled"
    /\ ~ops[o].aborted
    /\ Commit([World EXCEPT !.ops[o].aborted = TRUE, !.abandoned[o] = 0])
    /\ UNCHANGED <<now, config, aloneVars, backoff, breakerVars, advVars>>

clearAPICache ==
    /\ Commit([clearPrefetch(World) EXCEPT !.cache = << >>, !.pending = [k \in Keys |-> 0]])
    /\ UNCHANGED <<now, config, aloneVars, backoff, breakerVars, advVars>>

Tick ==
    /\ now < MaxTime
    /\ now' = now + 1
    /\ delivery' = NoDelivery
    /\ UNCHANGED <<config, aloneVars, backoff, circuitBreaker, pendingRequests, ops, abandoned, callers, apiCache,
                   prefetchQueue, prefetchedData, breakerVars, advVars>>

Next ==
    \/ \E c \in Callers : fetchPopularMovies(c)
    \/ \E c \in Callers : fetchMovieDetails(c)
    \/ \E c \in Callers : prefetchMovieDetails(c)
    \/ \E c \in Callers, query \in Queries : searchMovies(c, query)
    \/ \E o \in OpIds, res \in Outcomes : Response(o, res)
    \/ \E o \in OpIds, res \in Outcomes : LateResponse(o, res)
    \/ \E o \in OpIds : Timeout(o)
    \/ \E o \in OpIds : BackoffDone(o)
    \/ \E c \in Callers : Abort(c)
    \/ \E o \in OpIds : AbortSettled(o)
    \/ clearAPICache
    \/ Tick

vars == <<now, config, aloneVars, backoff, circuitBreaker, apiVars, breakerVars, advVars>>

Init == InitApi /\ InitAdv /\ InitUi /\ maxRetries = ApiRetries

Spec == Init /\ [][Next]_vars

\* ------------------------------------------------------------------------
\* The CircuitBreaker alone, driven the way the attempt function fn of the
\* public fetch operations drives it: canAttempt() before the fetch, then
\* recordFailure() on a response that is not ok, recordSuccess() on a decoded
\* response, nothing on a rejected fetch
\* ------------------------------------------------------------------------
InitBreaker ==
    /\ Init
    /\ maxRetries = ApiRetries

\* fn runs up to its fetch
AttemptStarts ==
    LET ca == canAttempt(circuitBreaker, now) IN
    /\ inflight < MaxInflight
    /\ circuitBreaker' = ca.cb
    /\ inflight' = IF ca.ret THEN inflight + 1 ELSE inflight
    /\ lastEvent' = [call |-> "canAttempt", from |-> circuitBreaker.state, time |-> now,
                     ret |-> ca.ret]
    /\ probes' = IF ca.ret /\ ca.cb.state = "HALF_OPEN" THEN Min(probes + 1, 2) ELSE probes
    /\ UNCHANGED <<now, config, aloneVars, backoff, apiVars, advVars, openedAt, consec>>

\* the response is ok and decoded: circuitBreaker.recordSuccess()
ResponseOk ==
    /\ inflight > 0
    /\ circuitBreaker' = recordSuccess(circuitBreaker)
    /\ inflight' = inflight - 1
    /\ lastEvent' = [call |-> "recordSuccess", from |-> circuitBreaker.state, time |-> now,
                     ret |-> FALSE]
    /\ probes' = 0
    /\ consec' = 0
    /\ UNCHANGED <<now, config, aloneVars, backoff, apiVars, advVars, openedAt>>

\* the response is not ok: circuitBreaker.recordFailure()
ResponseNotOk ==
    LET cb2 == recordFailure(circuitBreaker, now) IN
    /\ inflight > 0
    /\ circuitBreaker.failureCount < MaxFailures
    /\ circuitBreaker' = cb2
    /\ inflight' = inflight - 1
    /\ lastEvent' = [call |-> "recordFailure", from |-> circuitBreaker.state, time |-> now,
                     ret |-> FALSE]
    /\ probes' = IF cb2.state = "HALF_OPEN" THEN probes ELSE 0
    /\ consec' = consec + 1
    /\ openedAt' = IF circuitBreaker.state # "OPEN" /\ cb2.state = "OPEN" THEN now ELSE openedAt
    /\ UNCHANGED <<now, config, aloneVars, backoff, apiVars, advVars>>

\* the fetch rejects (transport error, abort): nothing is reported
FetchRejects ==
    /\ inflight > 0
    /\ inflight' = inflight - 1
    /\ UNCHANGED <<now, config, aloneVars, backoff, circuitBreaker, apiVars, advVars, lastEvent, openedAt, probes, consec>>

BreakerTick ==
    /\ now < BreakerMaxTime
    /\ now' = now + 1
    /\ UNCHANGED <<config, aloneVars, backoff, circuitBreaker, apiVars, breakerVars, advVars>>

NextBreaker ==
    \/ AttemptStarts
    \/ ResponseOk
    \/ ResponseNotOk
    \/ FetchRejects
    \/ BreakerTick

SpecBreaker == InitBreaker /\ [][NextBreaker]_vars

\* ------------------------------------------------------------------------
\* One call site and the maxRetries of API_CONFIG: retryWithBackoff as
\* fetchPopularMovies runs it. An attempt that is pending ends (the response
\* arrives or the timer of createTimeoutPromise fires) and a backoff delay
\* elapses (the timer of setTimeout fires)
\* ------------------------------------------------------------------------
InitRetry ==
    /\ InitApi
    /\ InitAdv
    /\ InitUi
    /\ apiKey = TRUE
    /\ resource = "popular_1"
    /\ maxRetries = MAX_RETRIES

AttemptEnds(o) == Timeout(o) \/ \E res \in Outcomes : Response(o, res)

NextRetry ==
    \/ fetchPopularMovies("c1")
    \/ \E o \in OpIds, res \in Outcomes : Response(o, res)
    \/ \E o \in OpIds, res \in Outcomes : LateResponse(o, res)
    \/ \E o \in OpIds : Timeout(o)
    \/ \E o \in OpIds : BackoffDone(o)
    \/ Abort("c1")
    \/ \E o \in OpIds : AbortSettled(o)
    \/ Tick

SpecRetry ==
    /\ InitRetry
    /\ [][NextRetry]_vars
    /\ \A o \in OpIds : WF_vars(AttemptEnds(o)) /\ WF_vars(BackoffDone(o))

InitCache ==
    /\ Init
    /\ apiKey = TRUE
    /\ resource = "popular_1"

SpecCache == InitCache /\ [][NextCache]_vars

\* ------------------------------------------------------------------------
\* The backoff delays of retryWithBackoff alone: every attempt fails with a
\* retryable error
\* ------------------------------------------------------------------------
\* the catch block computes the next delay and waits it
Backoff(r) ==
    /\ backoff.waits < MaxWaits
    /\ backoff' = [delay |-> nextDelay(backoff.delay, r), previous |-> backoff.delay,
                   waits |-> backoff.waits + 1]
    /\ UNCHANGED <<now, config, aloneVars, circuitBreaker, apiVars, breakerVars, advVars>>

\* retryWithBackoff is called again
BackoffStart ==
    /\ backoff.waits > 0
    /\ backoff' = NoBackoff
    /\ UNCHANGED <<now, config, aloneVars, circuitBreaker, apiVars, breakerVars, advVars>>

NextBackoff ==
    \/ \E r \in 0..(JitterSteps - 1) : Backoff(r)
    \/ BackoffStart

SpecBackoff == InitCache /\ [][NextBackoff]_vars

\* ------------------------------------------------------------------------
\* APICache alone, constructed with a small maxSize
\* ------------------------------------------------------------------------
\* the keys of the cache in Map order
KeysOf(cache) == [i \in 1..Len(cache) |-> cache[i].key]

\* apiCache.set(key, value)
LiteSet(key, value) ==
    /\ lite.sets < LiteMaxSets
    /\ LET full == Len(lite.cache) >= LiteMaxSize
           firstKey == IF full THEN lite.cache[1].key ELSE ""
           c2 == APICache_set(lite.cache, LiteMaxSize, key, value, now)
           b1 == [k \in LiteKeys |-> IF k = firstKey THEN 0 ELSE lite.born[k]]
       IN lite' = [cache |-> c2,
                   born |-> IF b1[key] = 0 THEN [b1 EXCEPT ![key] = lite.sets + 1] ELSE b1,
                   sets |-> lite.sets + 1,
                   last |-> [op |-> "set", key |-> key, evicted |-> firstKey]]
    /\ UNCHANGED <<now, config, edge, trending, retry, backoff, circuitBreaker, apiVars, breakerVars, advVars>>

\* apiCache.get(key)
LiteGet(key) ==
    /\ LET g == APICache_get(lite.cache, ApiMaxAgeTicks, key, now)
           gone == IndexOf(lite.cache, key) # 0 /\ IndexOf(g.cache, key) = 0
       IN lite' = [lite EXCEPT !.cache = g.cache,
                               !.born = IF gone THEN [@ EXCEPT ![key] = 0] ELSE @,
                               !.last = [op |-> "get", key |-> key, evicted |-> ""]]
    /\ UNCHANGED <<now, config, edge, trending, retry, backoff, circuitBreaker, apiVars, breakerVars, advVars>>

\* apiCache.clear()
LiteClear ==
    /\ lite.cache # << >>
    /\ lite' = [lite EXCEPT !.cache = << >>, !.born = [k \in LiteKeys |-> 0],
                            !.last = [op |-> "clear", key |-> "", evicted |-> ""]]
    /\ UNCHANGED <<now, config, edge, trending, retry, backoff, circuitBreaker, apiVars, breakerVars, advVars>>

LiteTick ==
    /\ now < LiteMaxTime
    /\ now' = now + 1
    /\ lite' = [lite EXCEPT !.last = [op |-> "none", key |-> "", evicted |-> ""]]
    /\ UNCHANGED <<config, edge, trending, retry, backoff, circuitBreaker, apiVars, breakerVars, advVars>>

NextLite ==
    \/ \E key \in LiteKeys, value \in 1..LiteMaxValue : LiteSet(key, ResponseValue(value))
    \/ \E key \in LiteKeys : LiteGet(key)
    \/ LiteClear
    \/ LiteTick

SpecLite == InitCache /\ [][NextLite]_vars

\* ------------------------------------------------------------------------
\* EdgeCache and the useEdgeCachedData hook (one hook instance, one key)
\* ------------------------------------------------------------------------
\* EdgeCache.set(key, data)
EdgeCache_set(data, t) == [present |-> TRUE, data |-> data, timestamp |-> t, isStale |-> FALSE]

\* get with the age test off by one
EdgeCache_get_eager(entry, maxAge, t) ==
    IF ~entry.present
    THEN [ret |-> NoCached, entry |-> entry]
    ELSE LET age == t - entry.timestamp
             isStale == age >= maxAge
             e1 == IF isStale /\ ~entry.isStale THEN [entry EXCEPT !.isStale = TRUE] ELSE entry
         IN [ret |-> [present |-> TRUE, data |-> e1.data, isStale |-> e1.isStale], entry |-> e1]
\* EdgeCache.get(key): what it returns and the entry it leaves
EdgeCache_get(entry, maxAge, t) ==
    IF ~entry.present
    THEN [ret |-> NoCached, entry |-> entry]
    ELSE LET age == t - entry.timestamp
             isStale == age > maxAge
             e1 == IF isStale /\ ~entry.isStale THEN [entry EXCEPT !.isStale = TRUE] ELSE entry
         IN [ret |-> [present |-> TRUE, data |-> e1.data, isStale |-> e1.isStale], entry |-> e1]

\* call i begins to await fetchFn()
StartCall(calls, i, state, cached) ==
    [j \in EdgeCalls |->
        IF j = i THEN [IdleCall EXCEPT !.state = state, !.cached = cached]
        ELSE IF calls[j].state # "idle" THEN [calls[j] EXCEPT !.superseded = TRUE]
        ELSE calls[j]]

\* call i has run to its end after fetchFn() resolved with freshData
EndCall(calls, i, freshData) ==
    [j \in EdgeCalls |->
        IF j = i THEN IdleCall
        ELSE IF calls[j].state # "idle" /\ calls[j].superseded /\ ~calls[i].superseded
        THEN [calls[j] EXCEPT !.overtakenBy = freshData]
        ELSE calls[j]]

\* fetchData(forceRefresh) runs up to its await of fetchFn(), or to its return
fetchData(i, forceRefresh) ==
    /\ edge.calls[i].state = "idle"
    /\ LET g == EdgeCache_get(edge.entry, EdgeMaxAge, now)
           cached == g.ret
           ev == [op |-> "read", call |-> i, force |-> forceRefresh, cached |-> cached,
                  value |-> 0]
       IN IF cached.present /\ ~forceRefresh /\ edge.swr
          THEN IF cached.isStale
               THEN edge' = [edge EXCEPT !.entry = g.entry, !.data = cached.data,
                                         !.isStale = cached.isStale, !.loading = TRUE,
                                         !.calls = StartCall(@, i, "revalidate", cached),
                                         !.last = ev]
               ELSE edge' = [edge EXCEPT !.entry = g.entry, !.data = cached.data,
                                         !.isStale = cached.isStale, !.last = ev]
          ELSE edge' = [edge EXCEPT !.entry = g.entry, !.loading = TRUE, !.error = NoError,
                                    !.calls = StartCall(@, i, "fetch", cached),
                                    !.last = ev]
    /\ UNCHANGED <<now, config, trending, retry, lite, backoff, circuitBreaker, apiVars, breakerVars, advVars>>

\* refetch: () => fetchData(true)
refetch(i) == fetchData(i, TRUE)

\* fetchFn() resolves with freshData and fetchData runs to its end
FetchFnResolves(i, freshData) ==
    /\ edge.calls[i].state # "idle"
    /\ edge' = [edge EXCEPT !.entry = EdgeCache_set(freshData, now), !.data = freshData,
                            !.isStale = FALSE, !.loading = FALSE,
                            !.calls = EndCall(@, i, freshData),
                            !.last = [op |-> "resolved", call |-> i,
                                      force |-> edge.calls[i].state = "fetch",
                                      cached |-> edge.calls[i].cached, value |-> freshData]]
    /\ UNCHANGED <<now, config, trending, retry, lite, backoff, circuitBreaker, apiVars, breakerVars, advVars>>

\* the catch block of the branch that awaited fetchFn
OnFetchFnError(e, call, err) ==
    IF call.state = "revalidate"
    THEN [e EXCEPT !.error = err]
    ELSE IF call.cached.present
         THEN [e EXCEPT !.error = err, !.data = call.cached.data, !.isStale = TRUE]
         ELSE [e EXCEPT !.error = err]

\* fetchFn() rejects and fetchData runs to its end
FetchFnRejects(i) ==
    /\ edge.calls[i].state # "idle"
    /\ edge' = [OnFetchFnError(edge, edge.calls[i], FailedToFetch) EXCEPT
                    !.loading = FALSE, !.calls[i] = IdleCall,
                    !.last = [op |-> "rejected", call |-> i,
                              force |-> edge.calls[i].state = "fetch",
                              cached |-> edge.calls[i].cached, value |-> 0]]
    /\ UNCHANGED <<now, config, trending, retry, lite, backoff, circuitBreaker, apiVars, breakerVars, advVars>>

EdgeTick ==
    /\ now < EdgeMaxTime
    /\ now' = now + 1
    /\ edge' = [edge EXCEPT !.last = NoEdgeEvent]
    /\ UNCHANGED <<config, trending, retry, lite, backoff, circuitBreaker, apiVars, breakerVars, advVars>>

NextEdge ==
    \/ \E i \in EdgeCalls : fetchData(i, FALSE)
    \/ \E i \in EdgeCalls : refetch(i)
    \/ \E i \in EdgeCalls, v \in EdgeData : FetchFnResolves(i, v)
    \/ \E i \in EdgeCalls : FetchFnRejects(i)
    \/ EdgeTick

\* staleWhileRevalidate is an option of the hook
InitEdge ==
    /\ InitApi
    /\ InitAdv
    /\ apiKey = TRUE
    /\ resource = "popular_1"
    /\ maxRetries = ApiRetries
    /\ trending = NoTrending
    /\ retry = NoRetry
    /\ lite = NoLite
    /\ \E swr \in BOOLEAN :
         edge = [entry |-> NoEntry, swr |-> swr, data |-> 0, loading |-> FALSE,
                 error |-> NoError, isStale |-> FALSE,
                 calls |-> [i \in EdgeCalls |-> IdleCall], last |-> NoEdgeEvent]

SpecEdge == InitEdge /\ [][NextEdge]_vars

\* ------------------------------------------------------------------------
\* TrendingCache and the fetchTrending of the TrendingMovies component. A
\* snapshot is the result of fetchTrendingMovies; a movie is its id
\* ------------------------------------------------------------------------
TrendingIds == 1..MaxMovieId

\* the results a fetch can resolve with: every id at most once
Snapshots ==
    {s \in UNION {[1..n -> TrendingIds] : n \in 0..MaxResults} :
        \A i, j \in 1..Len(s) : s[i] = s[j] => i = j}

\* setData that keeps the first snapshot as the previous one
TrendingCache_setData_keepFirst(tc, data, t) ==
    [tc EXCEPT !.previousData = IF tc.previousData.present THEN tc.previousData ELSE tc.data,
               !.data = data, !.lastFetchTime = t]
\* TrendingCache.setData(data)
TrendingCache_setData(tc, data, t) ==
    [tc EXCEPT !.previousData = tc.data, !.data = data, !.lastFetchTime = t]

\* TrendingCache.isStale()
TrendingCache_isStale(tc, t) ==
    tc.lastFetchTime = 0 - 1 \/ t - tc.lastFetchTime > TrendingStaleTicks

\* TrendingCache.getNewItems()
getNewItems(tc) ==
    IF ~tc.previousData.present \/ ~tc.data.present THEN << >>
    ELSE LET previousIds == {tc.previousData.results[i] : i \in 1..Len(tc.previousData.results)}
             keep(m) == m \notin previousIds
         IN SelectSeq(tc.data.results, keep)

\* fetchTrending() runs up to its await: the request of the previous call is
\* aborted, a new one starts
fetchTrendingStart(tr) ==
    [tr EXCEPT !.cancelled = @ + tr.pending, !.pending = 1, !.loading = TRUE, !.last = "fetch"]

\* the effect runs fetchTrending (mount, or timeWindow changed)
fetchTrending ==
    /\ trending.cancelled + trending.pending <= MaxCancelled
    /\ trending' = fetchTrendingStart(trending)
    /\ UNCHANGED <<now, config, edge, retry, lite, backoff, circuitBreaker, apiVars, breakerVars, advVars>>

\* the callback of setInterval
IntervalFires ==
    /\ trending.cancelled + trending.pending <= MaxCancelled
    /\ TrendingCache_isStale(trending, now)
    /\ trending' = fetchTrendingStart(trending)
    /\ UNCHANGED <<now, config, edge, retry, lite, backoff, circuitBreaker, apiVars, breakerVars, advVars>>

\* the rest of the try block of fetchTrending and its finally block
OnTrendingResult(tr, results) ==
    LET result == [present |-> TRUE, results |-> results]
        tc == TrendingCache_setData(tr, result, now)
        newItems == getNewItems(tc)
    IN [tc EXCEPT !.trending = result, !.newItems = newItems,
                  !.recentlyUpdated = IF Len(newItems) > 0 THEN TRUE ELSE @,
                  !.error = FALSE, !.loading = FALSE, !.last = "resolved"]

\* fetchTrendingMovies resolves and fetchTrending runs to its end
TrendingResolves(results) ==
    /\ trending.pending = 1
    /\ trending' = [OnTrendingResult(trending, results) EXCEPT !.pending = 0]
    /\ UNCHANGED <<now, config, edge, retry, lite, backoff, circuitBreaker, apiVars, breakerVars, advVars>>

\* the request of an earlier call resolves although a later call aborted its
\* signal (it had joined an operation of another caller, or the abort came
\* after the response)
CancelledResolves(results) ==
    /\ trending.cancelled > 0
    /\ trending' = [OnTrendingResult(trending, results) EXCEPT !.cancelled = @ - 1]
    /\ UNCHANGED <<now, config, edge, retry, lite, backoff, circuitBreaker, apiVars, breakerVars, advVars>>

\* the catch and finally blocks of fetchTrending
OnTrendingError(tr, err) ==
    [tr EXCEPT !.error = IF err.name # "AbortError" THEN TRUE ELSE @, !.loading = FALSE]

\* fetchTrendingMovies rejects, its signal not aborted
TrendingRejects(err) ==
    /\ trending.pending = 1
    /\ trending' = [OnTrendingError(trending, err) EXCEPT !.pending = 0, !.last = "failed"]
    /\ UNCHANGED <<now, config, edge, retry, lite, backoff, circuitBreaker, apiVars, breakerVars, advVars>>

\* the request of an earlier call, aborted by a later one, rejects with what
\* retryWithBackoff threw
CancelledRejects(err) ==
    /\ trending.cancelled > 0
    /\ trending' = [OnTrendingError(trending, err) EXCEPT !.cancelled = @ - 1,
                                                          !.last = "cancelled"]
    /\ UNCHANGED <<now, config, edge, retry, lite, backoff, circuitBreaker, apiVars, breakerVars, advVars>>

\* setTimeout(() => setRecentlyUpdated(false), 5000)
RecentlyUpdatedExpires ==
    /\ trending.recentlyUpdated
    /\ trending' = [trending EXCEPT !.recentlyUpdated = FALSE, !.last = "none"]
    /\ UNCHANGED <<now, config, edge, retry, lite, backoff, circuitBreaker, apiVars, breakerVars, advVars>>

TrendingTick ==
    /\ now < TrendingMaxTime
    /\ now' = now + 1
    /\ trending' = [trending EXCEPT !.last = "none"]
    /\ UNCHANGED <<config, edge, retry, lite, backoff, circuitBreaker, apiVars, breakerVars, advVars>>

NextTrending ==
    \/ fetchTrending
    \/ IntervalFires
    \/ \E results \in Snapshots : TrendingResolves(results)
    \/ \E results \in Snapshots : CancelledResolves(results)
    \/ \E err \in {FailedToFetch, HttpError("500")} : TrendingRejects(err)
    \/ \E err \in {AbortError, RequestAborted} : CancelledRejects(err)
    \/ RecentlyUpdatedExpires
    \/ TrendingTick

SpecTrending == InitCache /\ [][NextTrending]_vars

\* ------------------------------------------------------------------------
\* The timers of one retryWithBackoff call alone: the timer of each
\* createTimeoutPromise and the timer of the backoff delay
\* ------------------------------------------------------------------------
\* the catch block of retryWithBackoff; a retry waits the backoff delay
RetryOnError(r, error) ==
    IF r.attempt = MAX_RETRIES \/ ~isRetryable(error)
    THEN [r EXCEPT !.status = "settled", !.outcome = Failure(error)]
    ELSE [r EXCEPT !.status = "backoff", !.backoffTimer = TRUE]

\* Promise.race([fn(), createTimeoutPromise(timeout, signal)]): the timer is
\* armed; on a signal already aborted the fetch of fn rejects at once and the
\* abort listener never runs
RetryAttempt(r) ==
    LET r1 == [r EXCEPT !.status = "attempt", !.timeoutTimers = @ + 1]
    IN IF r.aborted THEN RetryOnError(r1, AbortError) ELSE r1

\* retryWithBackoff(fn, MAX_RETRIES, signal) is called
RetryCall(signal) ==
    /\ retry.status = "idle"
    /\ retry' = RetryAttempt([NoRetry EXCEPT !.signal = signal])
    /\ UNCHANGED <<now, config, edge, trending, lite, backoff, circuitBreaker, apiVars, breakerVars, advVars>>

\* fn() resolves
FnResolves ==
    /\ retry.status = "attempt"
    /\ retry' = [retry EXCEPT !.status = "settled", !.outcome = Success(ResponseValue(0))]
    /\ UNCHANGED <<now, config, edge, trending, lite, backoff, circuitBreaker, apiVars, breakerVars, advVars>>

\* fn() rejects
FnRejects(error) ==
    /\ retry.status = "attempt"
    /\ retry' = RetryOnError(retry, error)
    /\ UNCHANGED <<now, config, edge, trending, lite, backoff, circuitBreaker, apiVars, breakerVars, advVars>>

\* a timer of createTimeoutPromise fires. The timers have the same duration,
\* so they fire in the order they were armed: the timer of the attempt the
\* race is waiting for is the last one
TimeoutFires ==
    /\ retry.timeoutTimers > 0
    /\ LET r1 == [retry EXCEPT !.timeoutTimers = @ - 1]
       IN retry' = IF retry.status = "attempt" /\ retry.timeoutTimers = 1
                   THEN RetryOnError(r1, TimeoutError)
                   ELSE r1
    /\ UNCHANGED <<now, config, edge, trending, lite, backoff, circuitBreaker, apiVars, breakerVars, advVars>>

\* the timer of the backoff delay fires: the loop goes to its next iteration
BackoffElapses ==
    /\ retry.status = "backoff"
    /\ retry' = RetryAttempt([retry EXCEPT !.backoffTimer = FALSE, !.attempt = @ + 1])
    /\ UNCHANGED <<now, config, edge, trending, lite, backoff, circuitBreaker, apiVars, breakerVars, advVars>>

\* the signal is aborted: every abort listener clears its timer and rejects
\* its timeout promise, the fetch in flight rejects with an AbortError;
\* either settles the race
SignalAborts ==
    /\ retry.signal
    /\ ~retry.aborted
    /\ retry.status # "idle"
    /\ LET r1 == [retry EXCEPT !.aborted = TRUE, !.timeoutTimers = 0]
       IN IF retry.status = "attempt"
          THEN \E e \in {AbortError, RequestAborted} : retry' = RetryOnError(r1, e)
          ELSE retry' = r1
    /\ UNCHANGED <<now, config, edge, trending, lite, backoff, circuitBreaker, apiVars, breakerVars, advVars>>

NextTimers ==
    \/ \E signal \in BOOLEAN : RetryCall(signal)
    \/ FnResolves
    \/ \E error \in {FailedToFetch, HttpError("500"), CircuitOpenError} : FnRejects(error)
    \/ TimeoutFires
    \/ BackoffElapses
    \/ SignalAborts

SpecTimers == InitCache /\ [][NextTimers]_vars

\* ------------------------------------------------------------------------
\* Properties of the RequestDeduplicator and of the fetch operations (Spec)
\* ------------------------------------------------------------------------
Unsettled(o) == ops[o].status \in {"attempt", "backoff"}

\* operation o settles in this step
SettlesNow(o) == Unsettled(o) /\ ops'[o].status \notin {"attempt", "backoff"}

\* the operations started through deduplicate for key k that have not settled
PendingOps(k) == {o \in OpIds : Unsettled(o) /\ ops[o].key = k /\ ~ops[o].prefetch}

\* C1: for every dedup key, at every instant, at most one underlying
\* operation started by deduplicate is pending
C1_OnePendingOperationPerKey ==
    \A k \in Keys : Cardinality(PendingOps(k)) <= 1

LiveFetchesOf(k) ==
    LET RECURSIVE sum(_)
        sum(S) == IF S = {} THEN 0
                  ELSE LET o == CHOOSE x \in S : TRUE IN LiveFetches(o) + sum(S \ {o})
    IN sum({o \in OpIds : ops[o].status # "free" /\ ops[o].key = k})

\* C2: at every instant at most one network request for a logical resource is
\* live, also after an attempt lost the race against the timeout and with
\* prefetchMovieDetails in the interleaving
C2_OneLiveFetchPerResource ==
    \A k \in Keys : LiveFetchesOf(k) <= 1

C4_EntryRemovedOnlyAtSettle ==
    [][\A k \in Keys :
          (pendingRequests[k] # 0 /\ pendingRequests'[k] # pendingRequests[k])
          => SettlesNow(pendingRequests[k])]_vars

\* ------------------------------------------------------------------------
\* Properties of the CircuitBreaker (SpecBreaker)
\* ------------------------------------------------------------------------
\* C5: the breaker is CLOSED exactly while fewer than threshold failures were
\* recorded since the last success, canAttempt() returns true while CLOSED,
\* and the step from CLOSED to OPEN is the threshold-th consecutive
\* recordFailure(), which sets nextAttempt to now + timeout
C5_OpensAtThreshold ==
    /\ [](circuitBreaker.state = "CLOSED" <=> consec < CIRCUIT_BREAKER_THRESHOLD)
    /\ [](circuitBreaker.state = "CLOSED" => canAttempt(circuitBreaker, now).ret)
    /\ [][(circuitBreaker.state = "CLOSED" /\ circuitBreaker'.state = "OPEN")
          => /\ consec' = CIRCUIT_BREAKER_THRESHOLD
             /\ lastEvent'.call = "recordFailure"
             /\ circuitBreaker'.nextAttempt = now + circuitBreaker.timeout]_vars

C5_Witness ==
    /\ circuitBreaker.state = "OPEN"
    /\ lastEvent.call = "recordFailure"
    /\ lastEvent.from = "CLOSED"
    /\ consec = CIRCUIT_BREAKER_THRESHOLD

\* C6: a canAttempt() call made after the breaker moved to OPEN at time t and
\* before t + timeout returns false
C6_RefusesDuringCooldown ==
    (lastEvent.call = "canAttempt" /\ openedAt >= 0
        /\ lastEvent.time < openedAt + circuitBreaker.timeout)
    => ~lastEvent.ret

\* C7: canAttempt() on an OPEN breaker whose cooldown has elapsed returns
\* true and makes it HALF_OPEN; recordSuccess() on a HALF_OPEN breaker makes
\* it CLOSED with failureCount 0
C7_HalfOpenThenClosed ==
    /\ [][(AttemptStarts /\ circuitBreaker.state = "OPEN"
              /\ now >= circuitBreaker.nextAttempt)
          => /\ circuitBreaker'.state = "HALF_OPEN"
             /\ lastEvent'.ret
             /\ inflight' = inflight + 1]_vars
    /\ [][(ResponseOk /\ circuitBreaker.state = "HALF_OPEN")
          => /\ circuitBreaker'.state = "CLOSED"
             /\ circuitBreaker'.failureCount = 0]_vars

C7_Witness ==
    /\ lastEvent.call = "recordSuccess"
    /\ lastEvent.from = "HALF_OPEN"
    /\ circuitBreaker.state = "CLOSED"
    /\ circuitBreaker.failureCount = 0

\* C8: while the breaker is HALF_OPEN and no outcome has been recorded, at
\* most one canAttempt() call returns true
C8_SingleProbe == probes <= 1

\* ------------------------------------------------------------------------
\* AdvancedCacheManager: size accounting
\* ------------------------------------------------------------------------
RECURSIVE SumSizes(_)
\* the sum of the estimated sizes of the entries of a cache
SumSizes(cache) ==
    IF Len(cache) = 0 THEN 0
    ELSE estimateSize(Head(cache).data) + SumSizes(Tail(cache))

\* the entry is present and now - createdAt <= ttl
IsLive(e) == now - e.timestamp <= e.ttl

LiveEntries == SelectSeq(advCache, IsLive)

\* C9: as long as no set was given a value whose estimated size exceeds
\* maxSize, currentSize <= maxSize in every state, so in particular when a
\* set returns, whether it inserted a new key or overwrote one.
C9_SizeBoundAfterSet == (~sawOversize) => currentSize <= AdvMaxSize

\* a set has just overwritten its key after evicting another entry
C9_Witness ==
    /\ lastCall.op = "set"
    /\ lastCall.overwrote
    /\ lastCall.evicted > 0
    /\ ~sawOversize
    /\ ~hung
    /\ currentSize > 0

\* C10 (as stated): currentSize is the sum of the estimated sizes of the
\* live entries, those present with now - createdAt <= ttl.
C10_SizeIsSumOfLiveEntries == currentSize = SumSizes(LiveEntries)

\* C10 (amended): currentSize is the sum of the estimated sizes of all the
\* entries physically present, expired or not.
C10_SizeIsSumOfPresentEntries == currentSize = SumSizes(advCache)

\* an expired entry is still present next to a live one, after an overwrite
\* or an eviction by set
C10_Witness ==
    /\ \E i \in 1..Len(advCache) : ~IsLive(advCache[i])
    /\ \E i \in 1..Len(advCache) : IsLive(advCache[i])
    /\ lastCall.op = "set"
    /\ (lastCall.overwrote \/ lastCall.evicted > 0)

\* ------------------------------------------------------------------------
\* AdvancedCacheManager: reads
\* ------------------------------------------------------------------------
EntryOf(cache, key) == cache[IndexOf(cache, key)]

\* C11: set(k, v, ttl) stores v with createdAt = now and that ttl, and nothing
\* but a set on k changes them; get(k) on an entry with now - createdAt <= ttl
\* returns its value and counts one hit; get(k) on an entry with
\* now - createdAt > ttl returns absent, counts one miss and deletes the
\* entry; get(k) on a key that is not there returns absent and counts one miss
C11_GetHonoursTtl ==
    /\ [][\A k \in AdvKeys, d \in AdvData, ttl \in Ttls :
             (lastCall'.op = "set" /\ lastCall'.key = k /\ ~hung' /\ set(k, d, ttl))
             => /\ IndexOf(advCache', k) # 0
                /\ EntryOf(advCache', k).data = d
                /\ EntryOf(advCache', k).timestamp = now
                /\ EntryOf(advCache', k).ttl = ttl]_vars
    /\ [][\A k \in AdvKeys :
             (lastCall'.op # "set" /\ IndexOf(advCache, k) # 0 /\ IndexOf(advCache', k) # 0)
             => /\ EntryOf(advCache', k).data = EntryOf(advCache, k).data
                /\ EntryOf(advCache', k).timestamp = EntryOf(advCache, k).timestamp
                /\ EntryOf(advCache', k).ttl = EntryOf(advCache, k).ttl]_vars
    /\ [][\A k \in AdvKeys :
             (lastCall'.op = "get" /\ lastCall'.key = k /\ get(k))
             => IF IndexOf(advCache, k) # 0
                   /\ now' - EntryOf(advCache, k).timestamp <= EntryOf(advCache, k).ttl
                THEN /\ lastCall'.found
                     /\ lastCall'.data = EntryOf(advCache, k).data
                     /\ stats'.hits = stats.hits + 1
                     /\ stats'.misses = stats.misses
                     /\ IndexOf(advCache', k) # 0
                ELSE /\ ~lastCall'.found
                     /\ stats'.misses = stats.misses + 1
                     /\ stats'.hits = stats.hits
                     /\ IndexOf(advCache', k) = 0]_vars

\* a get has just found its entry expired and deleted it, after an earlier
\* get had returned a value
C11_Witness ==
    /\ lastCall.op = "get"
    /\ lastCall.deleted
    /\ ~lastCall.found
    /\ stats.misses = 1
    /\ stats.hits > 0
    /\ IndexOf(advCache, lastCall.key) = 0

\* ------------------------------------------------------------------------
\* AdvancedCacheManager: eviction
\* ------------------------------------------------------------------------
\* the entries (by position) that a set on k, done in this step, has left in
\* the cache when its eviction loop ended
Survivors(k) ==
    {i \in 1..Len(advCache) :
        IF advCache[i].key = k THEN lastCall'.overwrote
        ELSE IndexOf(advCache', advCache[i].key) # 0}

Evicted(k) == (1..Len(advCache)) \ Survivors(k)

RECURSIVE SumAt(_)
\* the sum of the estimated sizes of the entries at the positions S
SumAt(S) ==
    IF S = {} THEN 0
    ELSE LET i == CHOOSE x \in S : TRUE
         IN estimateSize(advCache[i].data) + SumAt(S \ {i})

\* C12: every set returns with its value stored, whatever its size; the
\* entries it evicted were all accessed no later than the ones it kept, each
\* eviction is counted, they stop as soon as the value fits
\* (currentSize + estimated size <= maxSize) or the cache is empty, and not
\* before
C12_EvictsInLruOrder ==
    [][\A k \in AdvKeys :
          (lastCall'.op = "set" /\ lastCall'.key = k)
          => /\ ~hung'
             /\ IndexOf(advCache', k) # 0
             /\ LET size == estimateSize(EntryOf(advCache', k).data)
                    S == Survivors(k)
                    E == Evicted(k)
                IN /\ \A e \in E, i \in S : advCache[e].lastAccess <= advCache[i].lastAccess
                   /\ stats'.evictions = stats.evictions + Cardinality(E)
                   /\ (SumAt(S) + size <= AdvMaxSize \/ S = {})
                   /\ E # {}
                      => \E e \in E :
                            /\ \A f \in E : advCache[f].lastAccess <= advCache[e].lastAccess
                            /\ SumAt(S) + estimateSize(advCache[e].data) + size > AdvMaxSize]_vars

\* ------------------------------------------------------------------------
\* retryWithBackoff and the circuit breaker in the fetch operations (Spec)
\* ------------------------------------------------------------------------
\* the call c is about to make gets as far as fn: nothing usable is cached,
\* no operation is pending for the key and the API key is configured
ReachesFn(c) ==
    /\ CanCall(c)
    /\ apiKey
    /\ pendingRequests[resource] = 0
    /\ APICache_get(apiCache, ApiMaxAgeTicks, generateCacheKey(resource), now).value = NoValue

\* C13: when canAttempt() returns false to the first attempt of a fetch
\* operation, the call fails in the same turn with the circuit-open error, no
\* fetch is issued, no retry is scheduled and the breaker is left as it was;
\* the same holds for an attempt made after a backoff
C13_CircuitOpenFailsAtOnce ==
    /\ [][\A c \in Callers :
             (/\ ReachesFn(c)
              /\ ~canAttempt(circuitBreaker, now).ret
              /\ (fetchPopularMovies(c) \/ fetchMovieDetails(c)))
             => /\ delivery'.to = {c}
                /\ delivery'.outcome = Failure(CircuitOpenError)
                /\ circuitBreaker' = circuitBreaker
                /\ callers'[c].pc = "idle"
                /\ \A o \in OpIds :
                      /\ LiveFetches(o)' = LiveFetches(o)
                      /\ ops[o].status = "free" => ops'[o].status \in {"free", "settled"}]_vars
    /\ [][\A o \in OpIds :
             (/\ ops[o].status = "backoff"
              /\ ~canAttempt(circuitBreaker, now).ret
              /\ BackoffDone(o))
             => /\ delivery'.op = o
                /\ ~ops[o].prefetch => delivery'.outcome = Failure(CircuitOpenError)
                /\ circuitBreaker' = circuitBreaker
                /\ ops'[o].status \in {"free", "settled"}
                /\ \A p \in OpIds : LiveFetches(p)' = LiveFetches(p)]_vars

\* a caller has just been refused by the OPEN breaker
C13_Witness ==
    /\ delivery.outcome = Failure(CircuitOpenError)
    /\ delivery.to # {}
    /\ circuitBreaker.state = "OPEN"
    /\ \A o \in OpIds : ops[o].status \notin {"attempt", "backoff"}

\* the error fn throws for a response that is not a decoded ok
ErrorOf(res) ==
    IF res \in HttpStatuses THEN HttpError(res)
    ELSE IF res = "neterr" THEN FailedToFetch
    ELSE DecodeError

\* C14: retryWithBackoff invokes fn once when it starts and once after each
\* backoff, at most maxRetries + 1 times in all; the first attempt that
\* succeeds settles the call with its result; a call that fails is rejected
\* with the error of the attempt that has just failed, and a retryable error
\* rejects it only after maxRetries + 1 attempts; every call settles
C14_RetryTerminates ==
    /\ [](\A o \in OpIds : ops[o].attempt <= maxRetries)
    /\ [][\A o \in OpIds :
             ops'[o].attempt # ops[o].attempt
             => \/ ops'[o].attempt = 0
                \/ (ops[o].status = "backoff" /\ ops'[o].attempt = ops[o].attempt + 1)]_vars
    /\ [][\A o \in OpIds :
             (ops[o].status = "attempt" /\ Response(o, "ok"))
             => /\ SettlesNow(o)
                /\ delivery'.op = o
                /\ delivery'.outcome = Success(ResponseValue(now))]_vars
    /\ [][\A o \in OpIds, res \in Outcomes \ {"ok"} :
             (ops[o].status = "attempt" /\ Response(o, res) /\ SettlesNow(o))
             => /\ delivery'.op = o
                /\ delivery'.outcome = Failure(ErrorOf(res))
                /\ isRetryable(ErrorOf(res)) => ops[o].attempt = maxRetries]_vars
    /\ [][\A o \in OpIds :
             (ops[o].status = "attempt" /\ Timeout(o) /\ SettlesNow(o))
             => /\ delivery'.op = o
                /\ delivery'.outcome = Failure(TimeoutError)
                /\ ops[o].attempt = maxRetries]_vars
    /\ \A o \in OpIds : Unsettled(o) ~> ~Unsettled(o)

\* the call has just been rejected with the transport error of its last
\* attempt, the one made after maxRetries retries
C14_Witness ==
    /\ delivery.op # 0
    /\ delivery.to = {"c1"}
    /\ delivery.outcome = Failure(FailedToFetch)
    /\ maxRetries = MAX_RETRIES

\* C15: once the signal of a call is aborted the call is settled: it is not
\* left waiting for an attempt or a backoff delay, and no further attempt is
\* made for it
C15_AbortIsTerminal ==
    /\ [](\A o \in OpIds : ops[o].aborted => ~Unsettled(o))
    /\ [][\A o \in OpIds :
             (ops[o].aborted /\ ops'[o].aborted) => ops'[o].attempt = ops[o].attempt]_vars

\* C16: an attempt that succeeds calls recordSuccess(), and an attempt that
\* fails in the network attempt itself (the fetch rejects, or the attempt
\* times out) calls recordFailure()
C16_OutcomesReported ==
    /\ [][\A o \in OpIds :
             (ops[o].status = "attempt" /\ Response(o, "ok"))
             => circuitBreaker' = recordSuccess(circuitBreaker)]_vars
    /\ [][\A o \in OpIds :
             (ops[o].status = "attempt" /\ (Response(o, "neterr") \/ Timeout(o)))
             => circuitBreaker' = recordFailure(circuitBreaker, now)]_vars

\* C17: a response with status 500 is retried while attempts are left; a
\* response with status 404 ends the call with its error after that one
\* attempt
C17_RetriesServerErrors ==
    /\ [][\A o \in OpIds :
             (ops[o].status = "attempt" /\ ops[o].attempt < maxRetries /\ Response(o, "500"))
             => ops'[o].status = "backoff"]_vars
    /\ [][\A o \in OpIds :
             (ops[o].status = "attempt" /\ Response(o, "404"))
             => /\ SettlesNow(o)
                /\ delivery'.op = o
                /\ ~ops[o].prefetch => delivery'.outcome = Failure(HttpError("404"))]_vars

\* C18: each backoff delay waited is at least the delay before it, at most
\* 2 * 1.3 times the delay before it (the initial delay, for the first wait)
\* and at most the max delay, whatever the jitter
C18_BackoffDelays ==
    backoff.waits > 0
    => /\ backoff.delay >= backoff.previous
       /\ 10 * backoff.delay <= 26 * backoff.previous
       /\ backoff.delay <= MAX_BACKOFF

\* the cap has just applied to a delay computed with jitter
C18_Witness ==
    /\ backoff.waits >= 2
    /\ backoff.delay = MAX_BACKOFF
    /\ backoff.previous < MAX_BACKOFF
    /\ backoff.previous > 2 * INITIAL_BACKOFF

\* ------------------------------------------------------------------------
\* PrefetchManager (Spec)
\* ------------------------------------------------------------------------
\* the prefetches for movie id that are in flight
PrefetchOps(id) ==
    {o \in OpIds : Unsettled(o) /\ ops[o].prefetch /\ ops[o].key = DetailsKey(id)}

\* a result for movie id is stored, by a prefetch or by a fetch
Stored(id) ==
    \/ prefetchedData[id] # NoValue
    \/ APICache_get(apiCache, ApiMaxAgeTicks, generateCacheKey(DetailsKey(id)), now).value
          # NoValue

\* C19: prefetch(id) issues no fetch when a result for id is stored or a
\* prefetch for id is in flight, and at every instant at most one prefetch
\* per id is in flight
C19_OnePrefetchPerId ==
    /\ [][\A c \in Callers :
             (/\ Stored(1) \/ 1 \in prefetchQueue
              /\ prefetchMovieDetails(c))
             => \A o \in OpIds : LiveFetches(o)' = LiveFetches(o)]_vars
    /\ [](\A id \in MovieIds : Cardinality(PrefetchOps(id)) <= 1)

\* C20: when a prefetch settles, its caller is resumed with a resolved
\* promise whatever the outcome of the fetch by id, the id leaves the
\* in-flight set, and unless a value is returned nothing is stored for it
C20_PrefetchNeverFails ==
    [][\A o \in OpIds :
          (ops[o].prefetch /\ SettlesNow(o))
          => /\ delivery'.op = o
             /\ delivery'.outcome.ok
             /\ ops[o].owner \in delivery'.to
             /\ MovieIdOf(ops[o].key) \notin prefetchQueue'
             /\ delivery'.outcome.value = NoValue => prefetchedData' = prefetchedData]_vars

\* a prefetch whose fetch failed has just resolved, and nothing is stored or
\* in flight for its id
C20_Witness ==
    /\ delivery.op # 0
    /\ delivery.to # {}
    /\ delivery.outcome = Success(NoValue)
    /\ prefetchedData[1] = NoValue
    /\ 1 \notin prefetchQueue

\* ------------------------------------------------------------------------
\* useEdgeCachedData (SpecEdge)
\* ------------------------------------------------------------------------
\* the age of the cached value is above maxAge
EdgeIsStale == now - edge.entry.timestamp > EdgeMaxAge

\* C21: with stale-while-revalidate, a read of a key that has a cached value
\* surfaces that value at once with isStale = (now - cachedAt > maxAge) and
\* starts a refresh exactly when the value is stale; when that refresh
\* succeeds the cache holds the fresh value and a read returns it with
\* isStale = false
C21_StaleWhileRevalidate ==
    /\ [][\A i \in EdgeCalls :
             (/\ edge.swr
              /\ edge.entry.present
              /\ edge.calls[i].state = "idle"
              /\ edge'.last = [op |-> "read", call |-> i, force |-> FALSE,
                               cached |-> edge'.last.cached, value |-> 0])
             => /\ edge'.data = edge.entry.data
                /\ edge'.isStale = EdgeIsStale
                /\ edge'.entry.data = edge.entry.data
                /\ edge'.entry.timestamp = edge.entry.timestamp
                /\ (edge'.calls[i].state = "revalidate") = EdgeIsStale
                /\ (edge'.calls[i].state = "idle") = ~EdgeIsStale]_vars
    /\ [][\A i \in EdgeCalls :
             (/\ edge.calls[i].state = "revalidate"
              /\ edge'.last.op = "resolved"
              /\ edge'.last.call = i)
             => /\ edge'.data = edge'.last.value
                /\ ~edge'.isStale
                /\ EdgeCache_get(edge'.entry, EdgeMaxAge, now').ret =
                       [present |-> TRUE, data |-> edge'.last.value, isStale |-> FALSE]]_vars

\* a stale value was served, its refresh has just succeeded with another
\* value, and that value is now served as fresh
C21_Witness ==
    /\ edge.last.op = "resolved"
    /\ ~edge.last.force
    /\ edge.last.cached.isStale
    /\ edge.last.value # edge.last.cached.data
    /\ edge.data = edge.last.value
    /\ ~edge.isStale
    /\ edge.entry.data = edge.last.value

\* C22: when a refresh of a key that has a cached value fails, the cached
\* value is unchanged, the value served before is still served, isStale is
\* true and the failure is in the error field
C22_FailedRefreshKeepsValue ==
    [][\A i \in EdgeCalls :
          (/\ edge.entry.present
           /\ edge.calls[i].state # "idle"
           /\ edge'.last.op = "rejected"
           /\ edge'.last.call = i)
          => /\ edge'.entry = edge.entry
             /\ edge'.data = edge.data
             /\ edge'.data = edge.entry.data
             /\ edge'.isStale
             /\ edge'.error # NoError]_vars

\* ------------------------------------------------------------------------
\* TrendingCache (SpecTrending)
\* ------------------------------------------------------------------------
\* the items of cur whose id does not occur in prev, in the order of cur
NewOf(cur, prev) ==
    LET RECURSIVE new(_)
        new(s) == IF s = << >> THEN << >>
                  ELSE IF \E j \in 1..Len(prev) : prev[j] = Head(s)
                  THEN new(Tail(s))
                  ELSE <<Head(s)>> \o new(Tail(s))
    IN new(cur)

\* C23: after each successful refresh the cache holds the new snapshot and,
\* as previous snapshot, the one it held just before; getNewItems() is the
\* items of the new snapshot whose id is not in that previous one, in the
\* order of the new snapshot, and is empty when there was none
C23_NewItemsAgainstPreviousSnapshot ==
    [][(trending'.last = "resolved" /\ trending' # trending)
       => /\ trending'.data.present
          /\ trending'.previousData = trending.data
          /\ getNewItems(trending') =
               IF trending.data.present
               THEN NewOf(trending'.data.results, trending.data.results)
               ELSE << >>
          /\ trending'.newItems = getNewItems(trending')]_vars

\* the snapshot [1, 2] was followed by [2, 3]: 3 is the one new item
C23_Witness ==
    /\ trending.last = "resolved"
    /\ trending.previousData = [present |-> TRUE, results |-> <<1, 2>>]
    /\ trending.data = [present |-> TRUE, results |-> <<2, 3>>]
    /\ getNewItems(trending) = <<3>>

\* ------------------------------------------------------------------------
\* searchMovies and clearAPICache (Spec)
\* ------------------------------------------------------------------------
\* the queries that are empty or made of white space only
BlankQueries == {query \in Queries : \A i \in 1..Len(query) : query[i] = " "}

\* C24: searchMovies with an empty or white-space-only query resolves at once
\* to {results: [], totalPages: 0, currentPage: 1}; it starts no fetch and
\* leaves the cache, the pending map and the breaker as they were
C24_BlankSearchDoesNothing ==
    /\ [](\A query \in BlankQueries : trim(query) = << >>)
    /\ [][\A c \in Callers, query \in BlankQueries :
             (/\ resource = "search_a_1"
              /\ delivery'.op = 0
              /\ delivery'.to = {c}
              /\ searchMovies(c, query))
             => /\ delivery'.outcome.ok
                /\ delivery'.outcome.value = << << >>, 0, 1 >>
                /\ callers'[c].pc = "idle"
                /\ apiCache' = apiCache
                /\ pendingRequests' = pendingRequests
                /\ circuitBreaker' = circuitBreaker
                /\ ops' = ops
                /\ abandoned' = abandoned]_vars

\* a blank search has just returned the empty page while an operation for
\* the same resource is in flight and a result is cached
C24_Witness ==
    /\ resource = "search_a_1"
    /\ delivery.op = 0
    /\ delivery.outcome = Success(<< << >>, 0, 1 >>)
    /\ pendingRequests["search_a_1"] # 0
    /\ apiCache # << >>

\* C25: clearAPICache empties the API cache, the pending map and the prefetch
\* store (the queue and the stored results) and leaves the state and the
\* failure count of the breaker unchanged
C25_ClearEmptiesAllButBreaker ==
    [][(delivery' = NoDelivery /\ clearAPICache)
       => /\ apiCache' = << >>
          /\ \A k \in Keys : pendingRequests'[k] = 0
          /\ prefetchQueue' = {}
          /\ \A id \in MovieIds : prefetchedData'[id] = NoValue
          /\ circuitBreaker' = circuitBreaker]_vars

\* everything is empty while a prefetch is still in flight and the breaker
\* has counted failures: a clear has happened
C25_Witness ==
    /\ apiCache = << >>
    /\ \A k \in Keys : pendingRequests[k] = 0
    /\ prefetchQueue = {}
    /\ \E o \in OpIds : Unsettled(o) /\ ops[o].prefetch
    /\ \E o \in OpIds : Unsettled(o) /\ ~ops[o].prefetch
    /\ circuitBreaker.failureCount > 0

\* ------------------------------------------------------------------------
\* AdvancedCacheManager.get (SpecCache)
\* ------------------------------------------------------------------------
\* C26: get(k) on a key that is present and not expired returns the stored
\* value and changes nothing but the hit count and the accessCount and
\* lastAccess of the entry: currentSize, the keys, and the data, size,
\* timestamp and ttl of every entry stay, so a repeated get(k) returns the
\* same value
C26_GetIsReadOnly ==
    [][\A k \in AdvKeys :
          (/\ lastCall'.op = "get"
           /\ lastCall'.key = k
           /\ IndexOf(advCache, k) # 0
           /\ now - EntryOf(advCache, k).timestamp <= EntryOf(advCache, k).ttl
           /\ get(k))
          => /\ lastCall'.found
             /\ lastCall'.data = EntryOf(advCache, k).data
             /\ currentSize' = currentSize
             /\ Len(advCache') = Len(advCache)
             /\ \A i \in 1..Len(advCache) :
                   /\ advCache'[i].key = advCache[i].key
                   /\ advCache'[i].data = advCache[i].data
                   /\ advCache'[i].timestamp = advCache[i].timestamp
                   /\ advCache'[i].ttl = advCache[i].ttl
                   /\ advCache[i].key # k => advCache'[i] = advCache[i]
             /\ stats'.misses = stats.misses
             /\ stats'.evictions = stats.evictions
             /\ (lastCall.op = "get" /\ lastCall.key = k /\ lastCall.found)
                   => lastCall'.data = lastCall.data]_vars

\* the second get in a row of a key has just returned its value, at a later
\* time than the value was stored
C26_Witness ==
    /\ lastCall.op = "get"
    /\ lastCall.found
    /\ IndexOf(advCache, lastCall.key) # 0
    /\ EntryOf(advCache, lastCall.key).accessCount = 2
    /\ EntryOf(advCache, lastCall.key).timestamp < now
    /\ lastCall.data = EntryOf(advCache, lastCall.key).data
    /\ Len(advCache) = 2

\* ------------------------------------------------------------------------
\* Errors and the breaker (Spec)
\* ------------------------------------------------------------------------
\* C27: a response with status 404, an application error that is not
\* retried, is not recorded as a failure of the breaker: the breaker stays
\* as it was, count included
C27_NotFoundIsNoBreakerFailure ==
    [][\A o \in OpIds :
          (ops[o].status = "attempt" /\ Response(o, "404"))
          => circuitBreaker' = circuitBreaker]_vars

\* C28: when the caller that started an operation aborts its signal and the
\* operation fails by it, the error delivered has the name AbortError,
\* whether the aborted fetch or the abort listener of the timeout promise
\* settles the race
C28_AbortIsDeliveredAsAbortError ==
    [][\A c \in Callers :
          (/\ callers[c].pc = "waiting"
           /\ ops[callers[c].op].owner = c
           /\ Abort(c)
           /\ c \in delivery'.to
           /\ ~delivery'.outcome.ok)
          => delivery'.outcome.error.name = "AbortError"]_vars

\* ------------------------------------------------------------------------
\* The timers of retryWithBackoff (SpecTimers)
\* ------------------------------------------------------------------------
\* C29: once the call has settled none of its timers is pending, and once
\* its signal is aborted no backoff timer is pending
C29_NoTimerOutlivesTheCall ==
    /\ retry.status = "settled" => retry.timeoutTimers = 0 /\ ~retry.backoffTimer
    /\ retry.aborted => ~retry.backoffTimer

\* ------------------------------------------------------------------------
\* The HALF_OPEN breaker (SpecBreaker)
\* ------------------------------------------------------------------------
\* C30: recordFailure() on a HALF_OPEN breaker makes it OPEN with nextAttempt
\* = now + timeout, whatever the count was: a HALF_OPEN breaker always holds
\* a count of at least the threshold
C30_HalfOpenFailureReopens ==
    /\ [](circuitBreaker.state = "HALF_OPEN"
             => circuitBreaker.failureCount >= circuitBreaker.threshold)
    /\ [][(circuitBreaker.state = "HALF_OPEN" /\ ResponseNotOk)
          => /\ circuitBreaker'.state = "OPEN"
             /\ circuitBreaker'.nextAttempt = now + circuitBreaker.timeout
             /\ circuitBreaker'.failureCount = circuitBreaker.failureCount + 1]_vars

\* the probe of a HALF_OPEN breaker has just failed, after some time in
\* HALF_OPEN, and the cooldown starts again
C30_Witness ==
    /\ lastEvent.call = "recordFailure"
    /\ lastEvent.from = "HALF_OPEN"
    /\ lastEvent.time = now
    /\ circuitBreaker.state = "OPEN"
    /\ circuitBreaker.nextAttempt = now + circuitBreaker.timeout
    /\ openedAt = now
    /\ now >= 2

\* ------------------------------------------------------------------------
\* Cache-first flow (Spec)
\* ------------------------------------------------------------------------
\* the unexpired result the API cache holds for resource k (NoValue: none)
Cached(k) == APICache_get(apiCache, ApiMaxAgeTicks, generateCacheKey(k), now).value

\* caller c calls the public fetch operation of the resource of this run
PublicFetch(c) ==
    \/ fetchPopularMovies(c)
    \/ fetchMovieDetails(c)
    \/ searchMovies(c, <<"a">>)

\* C31: a fetch that succeeds writes its result to the cache and a fetch
\* that fails writes nothing; while the cache holds an unexpired result for
\* the key, a call returns that result at once, starts no fetch, creates no
\* pending entry and leaves the breaker alone
C31_CacheFirst ==
    /\ [][\A o \in OpIds, k \in Keys, res \in Outcomes :
             (/\ ops[o].status = "attempt"
              /\ ops[o].key = k
              /\ delivery'.op = o
              /\ Response(o, res))
             => IF res = "ok"
                THEN /\ Cached(k)' # NoValue
                     /\ delivery'.outcome = Success(Cached(k)')
                ELSE apiCache' = apiCache]_vars
    /\ [][\A c \in Callers :
             (/\ Cached(resource) # NoValue
              /\ callers[c].pc = "idle"
              /\ PublicFetch(c))
             => /\ delivery'.to = {c}
                /\ delivery'.outcome = Success(Cached(resource))
                /\ callers'[c].pc = "idle"
                /\ circuitBreaker' = circuitBreaker
                /\ pendingRequests' = pendingRequests
                /\ \A o \in OpIds : LiveFetches(o)' = LiveFetches(o)
                /\ apiCache' = apiCache]_vars

\* s without its elements of key k
WithoutKey(s, k) == SelectSeq(s, LAMBDA x : x # k)

\* C32: an APICache of maxSize >= 1 never holds more than maxSize entries,
\* whatever sequence of set, get and clear is applied; a set that makes room
\* removes the entry that was inserted first among those present; and a get
\* leaves the order of the entries it does not remove as it was.
C32_BoundedOldestFirst ==
    /\ [](/\ Len(lite.cache) <= LiteMaxSize
          /\ \A i, j \in 1..Len(lite.cache) :
                 i < j => /\ lite.cache[i].key # lite.cache[j].key
                          /\ lite.born[lite.cache[i].key] < lite.born[lite.cache[j].key])
    /\ [][\A key \in LiteKeys, value \in 1..LiteMaxValue :
             (/\ Len(lite.cache) >= LiteMaxSize
              /\ LiteSet(key, ResponseValue(value)))
             => \E old \in LiteKeys :
                    /\ lite.born[old] > 0
                    /\ \A k \in LiteKeys : lite.born[k] > 0 => lite.born[old] <= lite.born[k]
                    /\ LET rest == WithoutKey(KeysOf(lite.cache), old)
                       IN KeysOf(lite'.cache) =
                              IF \E i \in 1..Len(rest) : rest[i] = key
                              THEN rest ELSE Append(rest, key)]_vars
    /\ [][\A key \in LiteKeys :
             LiteGet(key) => \/ KeysOf(lite'.cache) = KeysOf(lite.cache)
                             \/ KeysOf(lite'.cache) = WithoutKey(KeysOf(lite.cache), key)]_vars

\* a full cache was given another key, and the entry inserted first made room
C32_Witness ==
    /\ lite.last.op = "set"
    /\ lite.last.evicted # ""
    /\ lite.last.evicted # lite.last.key
    /\ Len(lite.cache) = LiteMaxSize
    /\ lite.sets > LiteMaxSize + 1

\* the errors a cancelled operation rejects with
CancellationErrors == {AbortError, RequestAborted}

\* caller c waits for an operation that another caller started
IsJoiner(c) == callers[c].pc = "waiting" /\ ops[callers[c].op].owner # c

\* C33: when callers share one pending operation, aborting the signal of a
\* caller that joined changes nothing of the operation (it stays pending with
\* its fetches, and the breaker, the cache and the other callers are left
\* alone), an operation rejects with a cancellation error only after the
\* signal of the caller that started it was aborted, and when the operation
\* settles every caller waiting for it receives the one outcome.
C33_OnlyTheInitiatorCancels ==
    /\ [][\A c \in Callers :
             (/\ IsJoiner(c)
              /\ ~callers[c].aborted
              /\ callers'[c].pc = "waiting"
              /\ callers'[c].aborted)
             => /\ ops' = ops
                /\ abandoned' = abandoned
                /\ pendingRequests' = pendingRequests
                /\ circuitBreaker' = circuitBreaker
                /\ apiCache' = apiCache
                /\ delivery'.to = {}
                /\ \A c2 \in Callers \ {c} : callers'[c2] = callers[c2]]_vars
    /\ [][\A c \in Callers :
             (/\ IsJoiner(c)
              /\ ~ops[callers[c].op].aborted
              /\ Abort(c))
             => ~SettlesNow(callers[c].op) /\ ~ops'[callers[c].op].aborted]_vars
    /\ [][\A o \in OpIds :
             SettlesNow(o)
             => /\ delivery'.op = o
                /\ delivery'.to = Waiters(World, o)
                /\ (~delivery'.outcome.ok /\ delivery'.outcome.error \in CancellationErrors)
                   => ops[o].aborted \/ Abort(ops[o].owner)]_vars

\* a caller that joined an operation has aborted its signal, and the
\* operation is still pending with its fetch in flight, not cancelled
C33_Witness ==
    \E c \in Callers :
        /\ IsJoiner(c)
        /\ callers[c].aborted
        /\ ops[callers[c].op].status = "attempt"
        /\ ~ops[callers[c].op].aborted
        /\ pendingRequests[ops[callers[c].op].key] = callers[c].op

\* the signal that caller c passed to its call, which waits for operation o,
\* has not been aborted and is not aborted in this step
SignalNeverAborted(c, o) ==
    IF ops[o].owner = c THEN ~ops[o].aborted /\ ~Abort(c) ELSE ~callers[c].aborted

\* C34: a call whose own signal is never aborted does not fail with a
\* cancellation error, also when it was issued for a key for which an
\* earlier call, whose signal has been aborted since, is still pending.
C34_NoCancellationWithoutOwnAbort ==
    [][\A o \in OpIds, c \in Callers :
          (/\ SettlesNow(o)
           /\ c \in delivery'.to
           /\ callers[c].joinedAborted
           /\ SignalNeverAborted(c, o))
          => ~(/\ ~delivery'.outcome.ok
               /\ delivery'.outcome.error \in CancellationErrors)]_vars

\* C35: once an attempt was abandoned, because the timeout won the race or
\* the call settled, the later completion of its fetch changes neither the
\* API cache nor the circuit breaker.
C35_AbandonedAttemptIsInert ==
    [][\A o \in OpIds, res \in Outcomes :
          (/\ abandoned[o] > 0
           /\ LateResponse(o, res))
          => /\ apiCache' = apiCache
             /\ circuitBreaker' = circuitBreaker]_vars

\* C36: an operation that settles removes only its own pending entry: when
\* clearAPICache() ran while operation A was pending and operation B was then
\* started for the same key, the settling of A leaves the entry of B in place.
C36_SettlingRemovesOwnEntryOnly ==
    [][\A o \in OpIds, k \in Keys :
          (/\ Unsettled(o)
           /\ ops[o].key = k
           /\ pendingRequests[k] \notin {0, o}
           /\ SettlesNow(o))
          => pendingRequests'[k] = pendingRequests[k]]_vars

\* C37: in every reachable state of the breaker, state is one of CLOSED,
\* OPEN and HALF_OPEN; failureCount is below the threshold while CLOSED and
\* at least the threshold while OPEN or HALF_OPEN.
C37_StateAgreesWithCount ==
    /\ circuitBreaker.state \in {"CLOSED", "OPEN", "HALF_OPEN"}
    /\ circuitBreaker.state = "CLOSED"
           => circuitBreaker.failureCount < circuitBreaker.threshold
    /\ circuitBreaker.state \in {"OPEN", "HALF_OPEN"}
           => circuitBreaker.failureCount >= circuitBreaker.threshold

\* a failure was recorded on an OPEN breaker, by a request that was in
\* flight when it opened: the count is past the threshold
C37_Witness ==
    /\ lastEvent.call = "recordFailure"
    /\ lastEvent.from = "OPEN"
    /\ circuitBreaker.state = "OPEN"
    /\ circuitBreaker.failureCount > circuitBreaker.threshold

\* C38: when two refreshes of useEdgeCachedData overlap, the value that the
\* EdgeCache holds and the hook surfaces once both have completed is the
\* result of the refresh that was started last, whichever completes last.
C38_LastStartedRefreshWins ==
    [][\A i \in EdgeCalls, v \in EdgeData :
          (/\ edge.calls[i].state # "idle"
           /\ edge.calls[i].overtakenBy # 0
           /\ \A j \in EdgeCalls \ {i} : edge.calls[j].state = "idle"
           /\ FetchFnResolves(i, v))
          => /\ edge'.entry.data = edge.calls[i].overtakenBy
             /\ edge'.data = edge.calls[i].overtakenBy]_vars

\* C39: AdvancedCacheManager.set terminates for every key, the empty string
\* included, and every value; and an evictLRU() call on a cache that is not
\* empty removes exactly one entry, decreases currentSize by the estimated
\* size of that entry and increments stats.evictions by one.
C39_SetTerminatesEvictRemovesOne ==
    /\ ~hung
    /\ Len(advCache) > 0
           => LET r == evictLRU(advCache, currentSize, stats.evictions)
                  i == LruIndex(advCache)
              IN /\ Len(r.cache) = Len(advCache) - 1
                 /\ r.cur = currentSize - estimateSize(advCache[i].data)
                 /\ r.ev = stats.evictions + 1

====
